---------------------------- MODULE Spec2Model ----------------------------
(***************************************************************************)
(* A model of sdl2-life (src/main.go): the toroidal cell grid and its tick, *)
(* the rule-string parser, the three pattern decoders and the pattern       *)
(* intake channel drained by the main loop.                                 *)
(*                                                                          *)
(* Strings are sequences of one-character strings.  Go's int is taken to be *)
(* 64 bits wide; numbers read by strconv.Atoi are kept as a sign and a      *)
(* sequence of decimal digits so that ten-digit values are exact.           *)
(***************************************************************************)
EXTENDS Integers, Sequences, FiniteSets, TLC

VARIABLES
    rows, columns,      \* LifeGame.rows, LifeGame.columns
    cells,              \* LifeGame.cells, indexed [y][x] from 0
    liveCells,          \* LifeGame.liveCells
    age,                \* LifeGame.age (generation counter)
    birth, stayAlive,   \* LifeGame.birth, LifeGame.stayAlive
    cfg,                \* the global cfg: Rule, PatternFile, Empty, Pause, Server
    running,            \* Run: running
    oneStep,            \* Run: oneStep
    pause,              \* Run: pause
    fpsElapsed,         \* Run: sdl.GetTicks() - fpsTime, in ms
    pc,                 \* Run: position inside one loop iteration
    pChan,              \* the buffered channel of patterns
    handlers,           \* patterns of request handlers about to send
    status,             \* "run", "quit", "panic" or "fatal"
    input,              \* argument of the function under study
    output,             \* its return value
    hist                \* history of the run, read by the properties only

vars == <<rows, columns, cells, liveCells, age, birth, stayAlive, cfg,
          running, oneStep, pause, fpsElapsed, pc, pChan, handlers, status,
          input, output, hist>>

gameVars == <<rows, columns, cells, liveCells, age, birth, stayAlive, cfg>>
loopVars == <<running, oneStep, pause, fpsElapsed, pc, pChan, handlers, status>>

-----------------------------------------------------------------------------
(* Strings *)

Str1(a) == <<a>>

DigitChars == <<"0", "1", "2", "3", "4", "5", "6", "7", "8", "9">>

IsDigit(c) == \E i \in 1..Len(DigitChars) : DigitChars[i] = c

DigitVal(c) == (CHOOSE i \in 1..Len(DigitChars) : DigitChars[i] = c) - 1

\* strings.HasPrefix
HasPrefix(s, p) == Len(s) >= Len(p) /\ SubSeq(s, 1, Len(p)) = p

\* strings.TrimPrefix
TrimPrefix(s, p) == IF HasPrefix(s, p) THEN SubSeq(s, Len(p) + 1, Len(s)) ELSE s

\* strings.Contains
Contains(s, p) ==
    \E i \in 1..(Len(s) - Len(p) + 1) : SubSeq(s, i, i + Len(p) - 1) = p

\* strings.Split on a one-character separator: a sequence of strings
RECURSIVE SplitFrom(_, _, _, _)
SplitFrom(s, sep, i, cur) ==
    IF i > Len(s) THEN <<cur>>
    ELSE IF s[i] = sep THEN <<cur>> \o SplitFrom(s, sep, i + 1, <<>>)
    ELSE SplitFrom(s, sep, i + 1, Append(cur, s[i]))

Split(s, sep) == SplitFrom(s, sep, 1, <<>>)

RECURSIVE Repeat(_, _)
Repeat(c, n) == IF n <= 0 THEN <<>> ELSE <<c>> \o Repeat(c, n - 1)

-----------------------------------------------------------------------------
(* strconv.Atoi.  The value is [neg, mag]: mag is the decimal digits of the *)
(* magnitude without leading zeros, <<>> for zero.                          *)

RECURSIVE StripZeros(_)
StripZeros(d) ==
    IF d = <<>> THEN <<>>
    ELSE IF d[1] = "0" THEN StripZeros(Tail(d))
    ELSE d

MaxInt64Digits ==
    <<"9","2","2","3","3","7","2","0","3","6","8","5","4","7","7","5","8","0","7">>

\* magnitude a <= magnitude b, both without leading zeros
RECURSIVE MagLeq(_, _)
MagLeq(a, b) ==
    IF Len(a) # Len(b) THEN Len(a) < Len(b)
    ELSE IF a = <<>> THEN TRUE
    ELSE IF a[1] # b[1] THEN DigitVal(a[1]) < DigitVal(b[1])
    ELSE MagLeq(Tail(a), Tail(b))

\* the value fits an int64 (-2^63 has the magnitude of 2^63 - 1 plus one)
InInt64(neg, mag) ==
    \/ MagLeq(mag, MaxInt64Digits)
    \/ neg /\ mag = SubSeq(MaxInt64Digits, 1, 18) \o <<"8">>

Atoi(s) ==
    LET signed == Len(s) > 0 /\ s[1] \in {"+", "-"}
        body   == IF signed THEN Tail(s) ELSE s
        syntax == Len(body) > 0 /\ \A i \in 1..Len(body) : IsDigit(body[i])
        mag    == StripZeros(body)
        neg    == signed /\ s[1] = "-"
    IN  IF syntax /\ InInt64(neg, mag)
        THEN [err |-> FALSE, neg |-> neg /\ mag # <<>>, mag |-> mag]
        ELSE [err |-> TRUE, neg |-> FALSE, mag |-> <<>>]

\* the value as a number of the model, for values that are used as numbers
RECURSIVE MagToInt(_)
MagToInt(mag) ==
    IF mag = <<>> THEN 0
    ELSE 10 * MagToInt(SubSeq(mag, 1, Len(mag) - 1)) + DigitVal(mag[Len(mag)])

ToInt(a) == IF a.neg THEN 0 - MagToInt(a.mag) ELSE MagToInt(a.mag)

-----------------------------------------------------------------------------
(* Rule strings.  A Go map[int]bool is [nil, keys]; the nil map has no keys. *)

NilMap == [nil |-> TRUE, keys |-> {}]

MakeMap(S) == [nil |-> FALSE, keys |-> S]

MaxRuleDigits == 10

\* the loop `for value > 0 { ruleMap[value%10] = true; value = value / 10 }`
RECURSIVE DigitLoop(_, _)
DigitLoop(mag, keys) ==
    IF mag = <<>> THEN keys
    ELSE DigitLoop(SubSeq(mag, 1, Len(mag) - 1),
                   keys \cup {DigitVal(mag[Len(mag)])})

\* the loop is entered only for value > 0
ValueDigits(value) == IF value.neg THEN {} ELSE DigitLoop(value.mag, {})

parseDigits(digits) ==
    LET value  == Atoi(digits)
        errors == Len(digits) > MaxRuleDigits \/ value.err
    IN  IF errors THEN [map |-> NilMap, err |-> TRUE]
        ELSE [map |-> MakeMap(ValueDigits(value)), err |-> FALSE]

\* a slip that would hand back the sets parsed so far together with the error
ParseRulestringMutPartial(rule) ==
    LET fields == Split(rule, "/")
        b == parseDigits(TrimPrefix(fields[1], Str1("B")))
        s == IF Len(fields) >= 2 THEN parseDigits(TrimPrefix(fields[2], Str1("S")))
             ELSE [map |-> NilMap, err |-> TRUE]
    IN  IF ~HasPrefix(rule, Str1("B")) \/ ~Contains(rule, <<"/", "S">>)
        THEN [birth |-> NilMap, stayAlive |-> NilMap, err |-> TRUE]
        ELSE [birth |-> b.map, stayAlive |-> s.map,
              err |-> Len(fields) # 2 \/ b.err \/ s.err]

ParseRulestring(rule) ==
    LET fields == Split(rule, "/")
    IN  IF ~HasPrefix(rule, Str1("B")) \/ ~Contains(rule, <<"/", "S">>)
        THEN [birth |-> NilMap, stayAlive |-> NilMap, err |-> TRUE]
        ELSE IF Len(fields) # 2
        THEN [birth |-> NilMap, stayAlive |-> NilMap, err |-> TRUE]
        ELSE LET b == parseDigits(TrimPrefix(fields[1], Str1("B")))
                 s == parseDigits(TrimPrefix(fields[2], Str1("S")))
             IN  IF b.err \/ s.err
                 THEN [birth |-> NilMap, stayAlive |-> NilMap, err |-> TRUE]
                 ELSE [birth |-> b.map, stayAlive |-> s.map, err |-> FALSE]


-----------------------------------------------------------------------------
(* The grid.  A game g is [rows, columns, cells]; cells[y][x] is a Cell.    *)

Cell(x, y) == [alive |-> FALSE, aliveNext |-> FALSE, x |-> x, y |-> y, age |-> 0]

\* Go's %: the remainder has the sign of the dividend
GoRem(a, b) == IF a >= 0 THEN a % b ELSE 0 - ((0 - a) % b)

\* Go's /: the quotient is truncated toward zero
GoDiv(a, b) == IF a >= 0 THEN a \div b ELSE 0 - ((0 - a) \div b)

TranslateXYMutRem(g, x, y) ==
    [x |-> GoRem(GoDiv(g.columns, 2) + x, g.columns),
     y |-> GoRem(GoDiv(g.rows, 2) + y, g.rows)]

TranslateXY(g, x, y) ==
    LET x1 == GoDiv(g.columns, 2) + x
        y1 == GoDiv(g.rows, 2) + y
    IN  [x |-> GoRem(GoRem(x1, g.columns) + g.columns, g.columns),
         y |-> GoRem(GoRem(y1, g.rows) + g.rows, g.rows)]

\* g.cells[y][x] with an index outside the slice is a run-time panic
InRange(g, x, y) == 0 <= y /\ y < g.rows /\ 0 <= x /\ x < g.columns

\* a slip that would start the age of a cell set alive from 0
SetCellStateMutAge(g, x, y, alive) ==
    LET x1 == GoRem(x, g.columns)
        y1 == GoRem(y, g.rows)
    IN  IF ~InRange(g, x1, y1)
        THEN [g |-> g, x |-> x1, y |-> y1, panic |-> TRUE]
        ELSE [g |-> [g EXCEPT !.cells[y1][x1] =
                        [@ EXCEPT !.alive = alive, !.aliveNext = alive,
                                  !.age = 0]],
              x |-> x1, y |-> y1, panic |-> FALSE]

SetCellState(g, x, y, alive) ==
    LET x1 == GoRem(x, g.columns)
        y1 == GoRem(y, g.rows)
    IN  IF ~InRange(g, x1, y1)
        THEN [g |-> g, x |-> x1, y |-> y1, panic |-> TRUE]
        ELSE [g |-> [g EXCEPT !.cells[y1][x1] =
                        [@ EXCEPT !.alive = alive, !.aliveNext = alive,
                                  !.age = IF alive THEN @ ELSE 0]],
              x |-> x1, y |-> y1, panic |-> FALSE]

-----------------------------------------------------------------------------
(* The decoders.  Each returns [g, rule, err, panic]: the game after the    *)
(* writes made, cfg.Rule after the call, the error returned ("" for nil)    *)
(* and whether the call ended in a run-time panic.                          *)

\* the inner loop of FillDead: jlen cells of row y, from column x
RECURSIVE FillDeadRow(_, _, _, _, _)
FillDeadRow(g, x, y, j, jlen) ==
    IF j >= jlen THEN [g |-> g, x |-> x, y |-> y, panic |-> FALSE]
    ELSE LET r == SetCellState(g, x, y, FALSE)
         IN  IF r.panic THEN r
             ELSE FillDeadRow(r.g, r.x + 1, r.y, j + 1, jlen)

RECURSIVE FillDeadFrom(_, _, _, _, _, _, _)
FillDeadFrom(g, xEdge, x, y, width, i, height) ==
    IF i >= height THEN [g |-> g, panic |-> FALSE]
    ELSE LET r == FillDeadRow(g, x, y, 0, width - x)
         IN  IF r.panic THEN [g |-> r.g, panic |-> TRUE]
             ELSE FillDeadFrom(r.g, xEdge, xEdge, r.y + 1, width, i + 1, height)

FillDead(g, xEdge, x, y, width, height) ==
    FillDeadFrom(g, xEdge, x, y, width, 0, height)

\* fmt.Sprintf("%d", v)
Itoa(a) ==
    (IF a.neg THEN <<"-">> ELSE <<>>) \o (IF a.mag = <<>> THEN <<"0">> ELSE a.mag)

ErrRuleSlash == "ERROR: Rule must contain /"
ErrRuleSplit == "ERROR: Problem splitting rule on /"
ErrAlive == "Error parsing alive value"
ErrBirth == "Error parsing birth value"
ErrPositionLine == "Cannot parse position line"
ErrPosition == "Error parsing position"
ErrIllegal == "Illegal characters in pattern"
ErrRLEHeader == "Incorrect or missing RLE header"
ErrRLEMissing == "Missing lines after RLE header"
ErrWidth == "Error parsing width"
ErrHeight == "Error parsing height"

\* one line of pattern data of a Life 1.05 file, from its j-th character
RECURSIVE Life105Data(_, _, _, _, _)
Life105Data(g, line, j, xLine, y) ==
    IF j > Len(line) THEN [g |-> g, y |-> y, err |-> "", panic |-> FALSE]
    ELSE IF line[j] # "." /\ line[j] # "*"
    THEN [g |-> g, y |-> y, err |-> ErrIllegal, panic |-> FALSE]
    ELSE LET r == SetCellState(g, xLine, y, line[j] = "*")
         IN  IF r.panic THEN [g |-> g, y |-> y, err |-> "", panic |-> TRUE]
             ELSE Life105Data(r.g, line, j + 1, r.x + 1, r.y)

\* fmt.Sprintf("B%d/S%d", birth, stay), after the two conversions
Life105RuleOf(stay, born) ==
    IF stay.err THEN [err |-> ErrAlive, rule |-> <<>>]
    ELSE IF born.err THEN [err |-> ErrBirth, rule |-> <<>>]
    ELSE [err |-> "", rule |-> <<"B">> \o Itoa(born) \o <<"/", "S">> \o Itoa(stay)]

Life105RuleFields(line, fields) ==
    IF ~Contains(line, Str1("/")) THEN [err |-> ErrRuleSlash, rule |-> <<>>]
    ELSE IF Len(fields) # 2 THEN [err |-> ErrRuleSplit, rule |-> <<>>]
    ELSE Life105RuleOf(Atoi(fields[1]), Atoi(fields[2]))

\* the "#R " line: stay/birth, turned around into B<birth>/S<stay>
Life105Rule(line) == Life105RuleFields(line, Split(SubSeq(line, 4, Len(line)), "/"))

Life105PositionOfMutSwap(g, yv, xv) ==
    IF yv.err \/ xv.err THEN [err |-> ErrPosition, x |-> 0, y |-> 0]
    ELSE [err |-> ""] @@ TranslateXY(g, ToInt(yv), ToInt(xv))

Life105PositionOf(g, yv, xv) ==
    IF yv.err \/ xv.err THEN [err |-> ErrPosition, x |-> 0, y |-> 0]
    ELSE [err |-> ""] @@ TranslateXY(g, ToInt(xv), ToInt(yv))

Life105PositionFields(g, fields) ==
    IF Len(fields) # 3 THEN [err |-> ErrPositionLine, x |-> 0, y |-> 0]
    ELSE Life105PositionOf(g, Atoi(fields[2]), Atoi(fields[3]))

\* the "#P" line: row, then column
Life105Position(g, line) == Life105PositionFields(g, Split(line, " "))

\* what a line of a Life 1.05 file does to [g, rule, x, y]: r is the outcome
\* of the "#R " line, of the "#P" line or of the line of pattern data
Life105AfterRule(st, r) ==
    IF r.err # "" THEN [st EXCEPT !.err = r.err] ELSE [st EXCEPT !.rule = r.rule]

Life105AfterPosition(st, r) ==
    IF r.err # "" THEN [st EXCEPT !.err = r.err] ELSE [st EXCEPT !.x = r.x, !.y = r.y]

Life105AfterDataMutRollback(st, r) ==
    IF r.panic \/ r.err # ""
    THEN [st EXCEPT !.err = r.err, !.panic = r.panic]
    ELSE [st EXCEPT !.g = r.g, !.y = r.y + 1]

Life105AfterData(st, r) ==
    IF r.panic \/ r.err # ""
    THEN [st EXCEPT !.g = r.g, !.err = r.err, !.panic = r.panic]
    ELSE [st EXCEPT !.g = r.g, !.y = r.y + 1]

Life105Line(st, line) ==
    IF HasPrefix(line, <<"#", "D">>) \/ HasPrefix(line, <<"#", "L", "i", "f", "e">>)
    THEN st
    ELSE IF HasPrefix(line, <<"#", "N">>) THEN st
    ELSE IF HasPrefix(line, <<"#", "R", " ">>)
    THEN Life105AfterRule(st, Life105Rule(line))
    ELSE IF HasPrefix(line, <<"#", "P">>)
    THEN Life105AfterPosition(st, Life105Position(st.g, line))
    ELSE Life105AfterData(st, Life105Data(st.g, line, 1, st.x, st.y))

RECURSIVE Life105Lines(_, _, _)
Life105Lines(st, lines, i) ==
    IF i > Len(lines) \/ st.err # "" \/ st.panic THEN st
    ELSE Life105Lines(Life105Line(st, lines[i]), lines, i + 1)

Decoded(st) == [g |-> st.g, rule |-> st.rule, err |-> st.err, panic |-> st.panic]

ParseLife105(g, rule, lines) ==
    Decoded(Life105Lines([g |-> g, rule |-> rule, x |-> 0, y |-> 0,
                          err |-> "", panic |-> FALSE], lines, 1))

\* one line of a plaintext pattern: '.' is dead, anything else alive
RECURSIVE PlaintextData(_, _, _, _, _)
PlaintextData(g, line, j, xLine, y) ==
    IF j > Len(line) THEN [g |-> g, panic |-> FALSE]
    ELSE LET r == SetCellState(g, xLine, y, line[j] # ".")
         IN  IF r.panic THEN [g |-> g, panic |-> TRUE]
             ELSE PlaintextData(r.g, line, j + 1, xLine + 1, y)

RECURSIVE PlaintextLines(_, _, _, _, _, _)

PlaintextNextMutStay(r, rule, lines, i, x, y) ==
    IF r.panic THEN [g |-> r.g, rule |-> rule, err |-> "", panic |-> TRUE]
    ELSE PlaintextLines(r.g, rule, lines, i + 1, x, y)

\* after the line i: r is what the line has written
PlaintextNext(r, rule, lines, i, x, y) ==
    IF r.panic THEN [g |-> r.g, rule |-> rule, err |-> "", panic |-> TRUE]
    ELSE PlaintextLines(r.g, rule, lines, i + 1, x, y + 1)

PlaintextLines(g, rule, lines, i, x, y) ==
    IF i > Len(lines) THEN [g |-> g, rule |-> rule, err |-> "", panic |-> FALSE]
    ELSE IF HasPrefix(lines[i], Str1("!"))
    THEN PlaintextLines(g, rule, lines, i + 1, x, y)
    ELSE PlaintextNext(PlaintextData(g, lines[i], 1, x, y), rule, lines, i, x, y)

ParsePlaintext(g, rule, lines) ==
    PlaintextLines(g, rule, lines, 1, GoDiv(g.columns, 2), GoDiv(g.rows, 2))

-----------------------------------------------------------------------------
\* rleHeaderRegex, token by token:
\*   x \s* = \s* (\d+) \s* , \s* y \s* = \s* (\d+)
\*   then, zero or more times, the group  \s* , \s* rule \s* = \s* (any run)
\* Every run of \s or \d is followed by a character outside its class, so
\* from a given start the match is found without backtracking; the match is
\* the one at the leftmost start.

\* \s of Go's regexp
IsSpace(c) == c \in {" ", "\t", "\n", "\f", "\r"}

\* the first position at or after i that holds no white space
RECURSIVE SkipSpace(_, _)
SkipSpace(s, i) ==
    IF i <= Len(s) /\ IsSpace(s[i]) THEN SkipSpace(s, i + 1) ELSE i

\* the first position at or after i that holds no digit
RECURSIVE SkipDigits(_, _)
SkipDigits(s, i) ==
    IF i <= Len(s) /\ IsDigit(s[i]) THEN SkipDigits(s, i + 1) ELSE i

\* the first position at or after i that holds a newline, which '.' refuses
RECURSIVE SkipDot(_, _)
SkipDot(s, i) ==
    IF i <= Len(s) /\ s[i] # "\n" THEN SkipDot(s, i + 1) ELSE i

CharAt(s, i, c) == i <= Len(s) /\ s[i] = c

\* `<name>\s*=` from position i: the position after it, 0 when it fails
RleName(s, i, name) ==
    IF CharAt(s, i, name) /\ CharAt(s, SkipSpace(s, i + 1), "=")
    THEN SkipSpace(s, i + 1) + 1
    ELSE 0

\* `\s*(\d+)` from position i: the digits are s[from..to-1], to = 0 when it fails
RleDigitsFrom(s, from) ==
    IF SkipDigits(s, from) > from THEN [from |-> from, to |-> SkipDigits(s, from)]
    ELSE [from |-> from, to |-> 0]

RleNumber(s, i, name) ==
    IF RleName(s, i, name) = 0 THEN [from |-> 0, to |-> 0]
    ELSE RleDigitsFrom(s, SkipSpace(s, RleName(s, i, name)))

\* `\s*,\s*` from position i: the position after it, 0 when it fails
RleComma(s, i) ==
    IF i > 0 /\ CharAt(s, SkipSpace(s, i), ",")
    THEN SkipSpace(s, SkipSpace(s, i) + 1)
    ELSE 0

\* `rule\s*=\s*(.*)` from position r: the rule text, <<>> when it fails
RleRuleText(s, r) ==
    IF /\ r > 0 /\ r + 3 <= Len(s)
       /\ SubSeq(s, r, r + 3) = <<"r", "u", "l", "e">>
       /\ CharAt(s, SkipSpace(s, r + 4), "=")
    THEN SubSeq(s, SkipSpace(s, SkipSpace(s, r + 4) + 1),
                SkipDot(s, SkipSpace(s, SkipSpace(s, r + 4) + 1)) - 1)
    ELSE <<>>

\* the groups, once the width (w) and the height (h) have been located: the
\* third group is empty when the header has no rule
RleGroups(s, w, h) ==
    IF w.to = 0 \/ h.to = 0 THEN [ok |-> FALSE]
    ELSE [ok |-> TRUE,
          width  |-> SubSeq(s, w.from, w.to - 1),
          height |-> SubSeq(s, h.from, h.to - 1),
          rule   |-> RleRuleText(s, RleComma(s, h.to))]

RleHeight(s, w) ==
    IF w.to = 0 \/ RleComma(s, w.to) = 0 THEN [from |-> 0, to |-> 0]
    ELSE RleNumber(s, RleComma(s, w.to), "y")

RleGroupsW(s, w) == RleGroups(s, w, RleHeight(s, w))

\* the match that starts at position i, as FindStringSubmatch returns it
RleMatchAt(s, i) == RleGroupsW(s, RleNumber(s, i, "x"))

RleMatches(s) == \E i \in 1..Len(s) : RleMatchAt(s, i).ok

\* the leftmost start of a match, 0 when there is none
RECURSIVE RleFirstStart(_, _)
RleFirstStart(s, i) ==
    IF i > Len(s) THEN 0
    ELSE IF RleMatchAt(s, i).ok THEN i
    ELSE RleFirstStart(s, i + 1)

RleFindAt(s, i) == IF i = 0 THEN [ok |-> FALSE] ELSE RleMatchAt(s, i)

\* rleHeaderRegex.FindStringSubmatch(line)
RleFind(s) == RleFindAt(s, RleFirstStart(s, 1))

isRLE(lines) == \E i \in 1..Len(lines) : RleMatches(lines[i])

-----------------------------------------------------------------------------
(* ParseRLE *)

\* the scan for the header line: [found, first, header, err, panic], where
\* first is the number of lines up to and including the header line
RECURSIVE RleHeaderScan(_, _)
RleHeaderScan(lines, i) ==
    IF i > Len(lines)
    THEN [found |-> FALSE, first |-> 0, err |-> "", panic |-> FALSE]
    ELSE IF RleMatches(lines[i])
    THEN [found |-> TRUE, first |-> i, err |-> "", panic |-> FALSE]
    ELSE IF Len(lines[i]) = 0      \* line[0] of an empty string
    THEN [found |-> FALSE, first |-> 0, err |-> "", panic |-> TRUE]
    ELSE IF lines[i][1] # "#"
    THEN [found |-> FALSE, first |-> 0, err |-> ErrRLEHeader, panic |-> FALSE]
    ELSE RleHeaderScan(lines, i + 1)

\* `for i := 0; i < count; i++ { xLine, y = g.SetCellState(xLine, y, c != 'b'); xLine++ }`
RECURSIVE RleRun(_, _, _, _, _, _)
RleRun(g, xLine, y, alive, i, count) ==
    IF i >= count THEN [g |-> g, xLine |-> xLine, y |-> y, panic |-> FALSE]
    ELSE LET r == SetCellState(g, xLine, y, alive)
         IN  IF r.panic THEN [g |-> g, xLine |-> xLine, y |-> y, panic |-> TRUE]
             ELSE RleRun(r.g, r.x + 1, r.y, alive, i + 1, count)

\* the steps of the body on st = [g, xLine, y, count, rule, done, panic]:
\* f is what FillDead returned, r what the run of cells returned
RleAfterDollar(st, f, x, count) ==
    [st EXCEPT !.g = f.g, !.panic = f.panic, !.xLine = x, !.y = st.y + count,
               !.count = 0]

RleAfterBang(st, f) == [st EXCEPT !.g = f.g, !.panic = f.panic, !.done = TRUE]

RleAfterRun(st, r) ==
    [st EXCEPT !.g = r.g, !.panic = r.panic, !.xLine = r.xLine, !.y = r.y,
               !.count = 0]

\* `if count == 0 { count = 1 }`
RleCount(count) == IF count = 0 THEN 1 ELSE count

RleChar(st, c, x, yStart, width, height) ==
    IF c = "$"
    THEN RleAfterDollar(st, FillDead(st.g, x, st.xLine, st.y, width, RleCount(st.count)),
                        x, RleCount(st.count))
    ELSE IF c = "!"
    THEN RleAfterBang(st, FillDead(st.g, x, st.xLine, st.y, width,
                                   height - (st.y - yStart)))
    ELSE IF IsDigit(c)
    THEN [st EXCEPT !.count = (st.count * 10) + DigitVal(c)]
    ELSE RleAfterRun(st, RleRun(st.g, st.xLine, st.y, c # "b", 0, RleCount(st.count)))

\* the body, from character j of line i
RECURSIVE RleBody(_, _, _, _, _, _, _, _)
RleBody(st, lines, i, j, x, yStart, width, height) ==
    IF i > Len(lines) \/ st.done \/ st.panic THEN st
    ELSE IF j > Len(lines[i])
    THEN RleBody(st, lines, i + 1, 1, x, yStart, width, height)
    ELSE RleBody(RleChar(st, lines[i][j], x, yStart, width, height),
                 lines, i, j + 1, x, yStart, width, height)

RleDecoded(st) == [g |-> st.g, rule |-> st.rule, err |-> "", panic |-> st.panic]

\* from the conversion of the width and the height on
ParseRLESized(g, rule, lines, o, first, width, height, headerRule) ==
    IF width.err THEN [g |-> g, rule |-> rule, err |-> ErrWidth, panic |-> FALSE]
    ELSE IF height.err
    THEN [g |-> g, rule |-> rule, err |-> ErrHeight, panic |-> FALSE]
    ELSE RleDecoded(RleBody([g |-> g, xLine |-> o.x, y |-> o.y, count |-> 0,
                             rule |-> headerRule, done |-> FALSE, panic |-> FALSE],
                            lines, first + 1, 1, o.x, o.y,
                            ToInt(width), ToInt(height)))

ParseRLEHeader(g, rule, lines, o, first, header) ==
    ParseRLESized(g, rule, lines, o, first, Atoi(header.width), Atoi(header.height),
                  header.rule)

\* from the end of the scan for the header line on
ParseRLEScanned(g, rule, lines, o, scan) ==
    IF scan.panic THEN [g |-> g, rule |-> rule, err |-> "", panic |-> TRUE]
    ELSE IF scan.err # ""
    THEN [g |-> g, rule |-> rule, err |-> scan.err, panic |-> FALSE]
    ELSE IF ~scan.found
    THEN [g |-> g, rule |-> rule, err |-> ErrRLEHeader, panic |-> FALSE]
    ELSE IF scan.first > Len(lines) - 1
    THEN [g |-> g, rule |-> rule, err |-> ErrRLEMissing, panic |-> FALSE]
    ELSE ParseRLEHeader(g, rule, lines, o, scan.first, RleFind(lines[scan.first]))

ParseRLE(g, rule, lines, x0, y0) ==
    ParseRLEScanned(g, rule, lines, TranslateXY(g, x0, y0), RleHeaderScan(lines, 1))

-----------------------------------------------------------------------------
(* The tick *)

\* len(g.cells) and len(g.cells[y])
LenRows(cs) == Cardinality(DOMAIN cs)

LenCols(cs, y) == Cardinality(DOMAIN cs[y])

\* the eight calls of add, in the order of the source
NeighborOffsets ==
    << <<-1, 0>>, <<1, 0>>, <<0, 1>>, <<0, -1>>,
       <<-1, 1>>, <<1, 1>>, <<-1, -1>>, <<1, -1>> >>

WrapMutClamp(v, len) == IF v = len THEN len - 1 ELSE IF v = -1 THEN 0 ELSE v

\* add: "If we're at an edge, check the other side of the board"
Wrap(v, len) == IF v = len THEN 0 ELSE IF v = -1 THEN len - 1 ELSE v

\* the cell that add(x, y) looks at
AddCell(cs, x, y) ==
    LET y1 == Wrap(y, LenRows(cs))
        x1 == Wrap(x, LenCols(cs, y1))
    IN  cs[y1][x1]

RECURSIVE AddAll(_, _, _, _)
AddAll(cs, c, i, acc) ==
    IF i > Len(NeighborOffsets) THEN acc
    ELSE LET n == AddCell(cs, c.x + NeighborOffsets[i][1], c.y + NeighborOffsets[i][2])
         IN  AddAll(cs, c, i + 1,
                    IF n.alive
                    THEN [liveCount |-> acc.liveCount + 1, ageSum |-> acc.ageSum + n.age]
                    ELSE acc)

\* a slip that would count the neighbours by the state computed for the
\* next tick, which the pass has already written for the cells visited
RECURSIVE AddAllNext(_, _, _, _)
AddAllNext(cs, c, i, acc) ==
    IF i > Len(NeighborOffsets) THEN acc
    ELSE LET n == AddCell(cs, c.x + NeighborOffsets[i][1], c.y + NeighborOffsets[i][2])
         IN  AddAllNext(cs, c, i + 1,
                    IF n.aliveNext
                    THEN [liveCount |-> acc.liveCount + 1, ageSum |-> acc.ageSum + n.age]
                    ELSE acc)

liveNeighborsMutNext(cs, c) ==
    LET acc == AddAllNext(cs, c, 1, [liveCount |-> 0, ageSum |-> 0])
    IN  [liveCount |-> acc.liveCount,
         avgAge |-> IF acc.liveCount > 0 THEN GoDiv(acc.ageSum, acc.liveCount) ELSE 0]

liveNeighbors(cs, c) ==
    LET acc == AddAll(cs, c, 1, [liveCount |-> 0, ageSum |-> 0])
    IN  IF acc.liveCount > 0
        THEN [liveCount |-> acc.liveCount, avgAge |-> GoDiv(acc.ageSum, acc.liveCount)]
        ELSE [liveCount |-> acc.liveCount, avgAge |-> 0]

\* _, ok := m[k]
HasKey(m, k) == k \in m.keys

\* a slip that would keep the age of a cell that dies
checkStateOfMutAge(b, s, c, n) ==
    LET next == IF c.alive THEN HasKey(s, n.liveCount) ELSE HasKey(b, n.liveCount)
        age1 == IF ~c.alive /\ next THEN n.avgAge ELSE c.age
    IN  [c EXCEPT !.aliveNext = next,
                  !.age = IF next THEN age1 + 1 ELSE age1]

\* the cell c after checkState, in the grid cs as the pass has left it so far
checkStateOf(b, s, c, n) ==
    LET next == IF c.alive THEN HasKey(s, n.liveCount) ELSE HasKey(b, n.liveCount)
        age1 == IF ~c.alive /\ next THEN n.avgAge ELSE c.age
    IN  [c EXCEPT !.aliveNext = next,
                  !.age = IF next THEN age1 + 1 ELSE 0]

checkState(cs, b, s, c) == checkStateOf(b, s, c, liveNeighbors(cs, c))

\* `for y := range g.cells { for _, c := range g.cells[y]`: row by row
RowMajor(cs) ==
    [k \in 1..(LenRows(cs) * LenCols(cs, 0)) |->
        [y |-> (k - 1) \div LenCols(cs, 0), x |-> (k - 1) % LenCols(cs, 0)]]

\* the pass of NextFrame over the cells in the given order
RECURSIVE Pass(_, _, _, _, _, _)

\* the pass once the cell order[i] has been given its next state, c
PassOn(cs, b, s, order, i, live, c) ==
    Pass([cs EXCEPT ![c.y][c.x] = c], b, s, order, i + 1,
         IF c.aliveNext THEN live + 1 ELSE live)

Pass(cs, b, s, order, i, live) ==
    IF i > Len(order) THEN [cells |-> cs, liveCells |-> live]
    ELSE PassOn(cs, b, s, order, i, live,
                checkState(cs, b, s, cs[order[i].y][order[i].x]))

\* a slip that would draw without the swap
DrawMutNoSwap(cs) == cs

\* Draw, as far as the cells go: c.alive = c.aliveNext for every cell
Draw(cs) ==
    [y \in DOMAIN cs |-> [x \in DOMAIN cs[y] |->
        [cs[y][x] EXCEPT !.alive = cs[y][x].aliveNext]]]

\* a slip that would count every tick as a generation
NextFrameOfMutCount(p, last, a) ==
    [cells |-> Draw(p.cells), liveCells |-> p.liveCells, age |-> a + 1]

\* NextFrame on cells cs with rule (b, s), live count last and generation a
NextFrameOf(p, last, a) ==
    [cells |-> Draw(p.cells),
     liveCells |-> p.liveCells,
     age |-> IF p.liveCells - last # 0 THEN a + 1 ELSE a]

NextFrame(cs, b, s, last, a) ==
    NextFrameOf(Pass(cs, b, s, RowMajor(cs), 1, 0), last, a)

-----------------------------------------------------------------------------
(* InitializeCells *)

Coords(rws, cols) == (0..(cols - 1)) \X (0..(rws - 1))

DeadCells(rws, cols) ==
    [y \in 0..(rws - 1) |-> [x \in 0..(cols - 1) |-> Cell(x, y)]]

\* InitializeRandomCells: SetCellState(x, y, rand.Float64() < threshold) on
\* every cell; rnd is the set of <<x, y>> for which the draw was below threshold
InitializeRandomCells(g, rnd) ==
    [g EXCEPT !.cells = [y \in 0..(g.rows - 1) |-> [x \in 0..(g.columns - 1) |->
        [g.cells[y][x] EXCEPT !.alive = <<x, y>> \in rnd,
                              !.aliveNext = <<x, y>> \in rnd,
                              !.age = IF <<x, y>> \in rnd THEN @ ELSE 0]]]]

Life105Magic == <<"#", "L", "i", "f", "e", " ", "1", ".", "0", "5">>

Life106Magic == <<"#", "L", "i", "f", "e", " ", "1", ".", "0", "6">>

\* the choice of the decoder from the lines of the pattern file
LoadPatternFile(g, rule, lines) ==
    IF Len(lines) = 0
    THEN [g |-> g, rule |-> rule, err |-> "is empty", panic |-> FALSE]
    ELSE IF HasPrefix(lines[1], Life105Magic) THEN ParseLife105(g, rule, lines)
    ELSE IF HasPrefix(lines[1], Life106Magic)
    THEN [g |-> g, rule |-> rule, err |-> "Life 1.06 file format is not supported",
          panic |-> FALSE]
    ELSE IF isRLE(lines) THEN ParseRLE(g, rule, lines, 0, 0)
    ELSE ParsePlaintext(g, rule, lines)

\* the end of InitializeCells: d is what the pattern file or the random fill
\* has left, r the outcome of ParseRulestring(cfg.Rule)
InitializeRule(old, d, r) ==
    IF r.err
    THEN [status |-> "fatal", cells |-> d.g.cells, birth |-> r.birth,
          stayAlive |-> r.stayAlive, rule |-> d.rule]
    ELSE [status |-> "run", cells |-> Draw(d.g.cells), birth |-> r.birth,
          stayAlive |-> r.stayAlive, rule |-> d.rule]

InitializeFilled(old, d) ==
    IF d.panic
    THEN [status |-> "panic", cells |-> d.g.cells, birth |-> old.birth,
          stayAlive |-> old.stayAlive, rule |-> d.rule]
    ELSE IF d.err # ""
    THEN [status |-> "fatal", cells |-> d.g.cells, birth |-> old.birth,
          stayAlive |-> old.stayAlive, rule |-> d.rule]
    ELSE InitializeRule(old, d, ParseRulestring(d.rule))

InitializeFill(g0, c, rnd) ==
    IF c.HasPattern THEN LoadPatternFile(g0, c.Rule, c.PatternFile)
    ELSE IF ~c.Empty
    THEN [g |-> InitializeRandomCells(g0, rnd), rule |-> c.Rule,
          err |-> "", panic |-> FALSE]
    ELSE [g |-> g0, rule |-> c.Rule, err |-> "", panic |-> FALSE]

\* InitializeCells for a rows x columns world under configuration c; the
\* result is [status, cells, birth, stayAlive, rule].  make([][]*Cell, rows,
\* columns) panics when the length rows exceeds the capacity columns.
InitializeCells(rws, cols, c, old, rnd) ==
    IF rws > cols
    THEN [status |-> "panic", cells |-> old.cells, birth |-> old.birth,
          stayAlive |-> old.stayAlive, rule |-> c.Rule]
    ELSE InitializeFilled(old,
            InitializeFill([rows |-> rws, columns |-> cols,
                            cells |-> DeadCells(rws, cols)], c, rnd))

\* the LifeGame before the first InitializeCells
NoGame == [cells |-> <<>>, birth |-> NilMap, stayAlive |-> NilMap]

-----------------------------------------------------------------------------
(* Values of the variables a specification does not use *)

NoOutput == [done |-> FALSE]

NoHist == [op |-> "init"]

IdleGame ==
    /\ rows = 0 /\ columns = 0 /\ cells = <<>>
    /\ liveCells = 0 /\ age = 0
    /\ birth = NilMap /\ stayAlive = NilMap
    /\ cfg = [Rule |-> <<>>, HasPattern |-> FALSE, PatternFile |-> <<>>,
              Empty |-> FALSE, Pause |-> FALSE, Server |-> FALSE]

IdleLoop ==
    /\ running = FALSE /\ oneStep = FALSE /\ pause = FALSE
    /\ fpsElapsed = 0 /\ pc = "none"
    /\ pChan = <<>> /\ handlers = <<>>
    /\ status = "run"

\* every string over alphabet A of length at most n
Strings(A, n) == UNION {[1..k -> A] : k \in 0..n}

-----------------------------------------------------------------------------
(* SpecRule: ParseRulestring applied to one rule string *)

MaxRuleLen == 4

MaxGroupLen == 2

RuleAlphabet == {"B", "S", "/", "0", "1", "3", "-", "+", "a"}

GroupAlphabet == {"0", "2", "3", "-", " "}

LongGroups ==
    { Repeat("1", MaxRuleDigits), Repeat("1", MaxRuleDigits + 1),
      Repeat("0", MaxRuleDigits),
      <<"0","1","2","3","4","5","6","7","8","9">>,
      <<"9","8","7","6","5","4","3","2","1","0">>,
      <<"1","2","3","4","5","6","7","8","9","0","1">>,
      <<"-","1","2","3","4","5","6","7","8","9">>,
      <<"+","1","2","3","4","5","6","7","8","9","0">> }

RuleGroups == Strings(GroupAlphabet, MaxGroupLen) \cup LongGroups

RuleInputs ==
    {<<>> \o r : r \in Strings(RuleAlphabet, MaxRuleLen)}
    \cup {<<"B">> \o g1 \o <<"/", "S">> \o g2 : g1 \in RuleGroups, g2 \in RuleGroups}

InitRule ==
    /\ input \in RuleInputs
    /\ output = NoOutput
    /\ hist = NoHist
    /\ IdleGame /\ IdleLoop

CallParseRulestring ==
    /\ ~output.done
    /\ output' = [done |-> TRUE] @@ ParseRulestring(input)
    /\ UNCHANGED <<input, hist>>
    /\ UNCHANGED gameVars /\ UNCHANGED loopVars

NextRule == CallParseRulestring

SpecRule == InitRule /\ [][NextRule]_vars

\* the rule is B<g1>/S<g2> with the '/' at position k
RuleShape(rule, k) ==
    /\ 2 <= k /\ k + 1 <= Len(rule)
    /\ rule[1] = "B" /\ rule[k] = "/" /\ rule[k + 1] = "S"

Group1(rule, k) == SubSeq(rule, 2, k - 1)

Group2(rule, k) == SubSeq(rule, k + 2, Len(rule))

AllDigits(g) == \A i \in 1..Len(g) : IsDigit(g[i])

DigitsOf(g) == {DigitVal(g[i]) : i \in 1..Len(g)}

\* C3: for B<d1>/S<d2> with d1, d2 of 1 to 10 digit characters the call
\* succeeds, birth is exactly the digits occurring in d1 and survive exactly
\* the digits occurring in d2 (0 included, wherever it stands).
C3_ExactDigitSets ==
    output.done =>
        \A k \in 1..Len(input) :
            ( /\ RuleShape(input, k)
              /\ Len(Group1(input, k)) \in 1..10 /\ AllDigits(Group1(input, k))
              /\ Len(Group2(input, k)) \in 1..10 /\ AllDigits(Group2(input, k)) )
            => /\ ~output.err
               /\ output.birth = MakeMap(DigitsOf(Group1(input, k)))
               /\ output.stayAlive = MakeMap(DigitsOf(Group2(input, k)))

CountChar(s, c) == Cardinality({i \in 1..Len(s) : s[i] = c})

\* C4: a rule that does not start with 'B', has no "/S", has more than one
\* '/' or has a group longer than 10 characters is an error, and every error
\* comes with two nil sets.
C4_MalformedRuleIsError ==
    output.done =>
        /\ ( \/ Len(input) = 0 \/ input[1] # "B"
             \/ ~\E k \in 1..(Len(input) - 1) : input[k] = "/" /\ input[k + 1] = "S"
             \/ CountChar(input, "/") > 1
             \/ \E k \in 1..Len(input) :
                    /\ RuleShape(input, k)
                    /\ \/ Len(Group1(input, k)) > 10
                       \/ Len(Group2(input, k)) > 10 )
           => output.err
        /\ output.err => output.birth = NilMap /\ output.stayAlive = NilMap

\* a well-shaped rule with an 11-character group was rejected with nil sets
C4_Witness ==
    /\ output.done /\ output.err
    /\ output.birth = NilMap /\ output.stayAlive = NilMap
    /\ CountChar(input, "/") = 1
    /\ \E k \in 1..Len(input) :
           /\ RuleShape(input, k)
           /\ Len(Group1(input, k)) = 2 /\ AllDigits(Group1(input, k))
           /\ Len(Group2(input, k)) = 11 /\ AllDigits(Group2(input, k))

\* C5: B<g1>/S<g2> in which g1 or g2 holds a character that is not one of
\* the ten digits (a letter, a space, a sign) is an error.
C5_NonDigitGroupIsError ==
    output.done =>
        \A k \in 1..Len(input) :
            ( /\ RuleShape(input, k)
              /\ ~(AllDigits(Group1(input, k)) /\ AllDigits(Group2(input, k))) )
            => output.err


-----------------------------------------------------------------------------
(* SpecTick: a random world of any size up to the bounds, then ticks *)

\* the worlds have at most MaxCells cells
MaxCells == 9

MaxTicks == 2

TickRules ==
    { <<"B", "3", "/", "S", "2", "3">>,
      <<"B", "1", "3", "5", "7", "/", "S", "1", "3", "5", "7">>,
      <<"B", "2", "/", "S", "8">>,
      <<"B", "3", "S", "2", "3">> }

InitTick ==
    /\ rows \in 1..MaxCells
    /\ columns \in 1..MaxCells
    /\ rows * columns <= MaxCells
    /\ \E rule \in TickRules, rnd \in SUBSET Coords(rows, columns) :
        LET c == [Rule |-> rule, HasPattern |-> FALSE, PatternFile |-> <<>>,
                  Empty |-> FALSE, Pause |-> FALSE, Server |-> FALSE]
            i == InitializeCells(rows, columns, c, NoGame, rnd)
        IN  /\ cells = i.cells
            /\ birth = i.birth
            /\ stayAlive = i.stayAlive
            /\ cfg = [c EXCEPT !.Rule = i.rule]
            /\ status = i.status
    /\ liveCells = 0 /\ age = 0
    /\ running = TRUE /\ oneStep = FALSE /\ pause = FALSE
    /\ fpsElapsed = 0 /\ pc = "none"
    /\ pChan = <<>> /\ handlers = <<>>
    /\ input = <<>> /\ output = NoOutput
    /\ hist = [op |-> "init", prev |-> <<>>, ticks |-> 0]

\* one NextFrame
Tick ==
    /\ status = "run"
    /\ hist.ticks < MaxTicks
    /\ LET n == NextFrame(cells, birth, stayAlive, liveCells, age)
       IN  /\ cells' = n.cells
           /\ liveCells' = n.liveCells
           /\ age' = n.age
    /\ hist' = [op |-> "tick", prev |-> cells, ticks |-> hist.ticks + 1]
    /\ UNCHANGED <<rows, columns, birth, stayAlive, cfg, input, output>>
    /\ UNCHANGED loopVars

NextTick == Tick

SpecTick == InitTick /\ [][NextTick]_vars

\* the eight neighbour positions of a cell, as offsets
Offsets8 == {d \in (-1..1) \X (-1..1) : d # <<0, 0>>}

\* the pre-tick neighbours of (x, y) that were alive, as offsets
AliveAround(prev, x, y) ==
    {d \in Offsets8 : prev[(y + d[2]) % rows][(x + d[1]) % columns].alive}

ExpectedAlive(prev, x, y) ==
    \/ prev[y][x].alive /\ Cardinality(AliveAround(prev, x, y)) \in stayAlive.keys
    \/ ~prev[y][x].alive /\ Cardinality(AliveAround(prev, x, y)) \in birth.keys

AliveGrid(cs) == [y \in DOMAIN cs |-> [x \in DOMAIN cs[y] |-> cs[y][x].alive]]

\* the cells visited last to first, and column by column
ReverseOrder(cs) ==
    [k \in 1..Len(RowMajor(cs)) |-> RowMajor(cs)[Len(RowMajor(cs)) + 1 - k]]

ColumnMajor(cs) ==
    [k \in 1..(LenRows(cs) * LenCols(cs, 0)) |->
        [y |-> (k - 1) % LenRows(cs), x |-> (k - 1) \div LenRows(cs)]]

\* C1: after one NextFrame from a state with alive = aliveNext everywhere, a
\* cell is alive iff it was alive and its count of alive wrapped neighbours
\* (pre-tick) is in survive, or it was dead and the count is in birth; the
\* alive-grid is the same whatever the order of the visit.
C1_TickFollowsRule ==
    hist.op = "tick" =>
        /\ \A y \in 0..(rows - 1), x \in 0..(columns - 1) :
               cells[y][x].alive = ExpectedAlive(hist.prev, x, y)
        /\ \A order \in {ReverseOrder(hist.prev), ColumnMajor(hist.prev)} :
               AliveGrid(Draw(Pass(hist.prev, birth, stayAlive, order, 1, 0).cells))
                   = AliveGrid(cells)

\* a tick from a state with alive = aliveNext everywhere in which one cell
\* was born, one died and one survived
C1_Witness ==
    /\ hist.op = "tick"
    /\ \A y \in 0..(rows - 1), x \in 0..(columns - 1) :
           hist.prev[y][x].alive = hist.prev[y][x].aliveNext
    /\ \E y \in 0..(rows - 1), x \in 0..(columns - 1) :
           ~hist.prev[y][x].alive /\ cells[y][x].alive
    /\ \E y \in 0..(rows - 1), x \in 0..(columns - 1) :
           hist.prev[y][x].alive /\ ~cells[y][x].alive
    /\ \E y \in 0..(rows - 1), x \in 0..(columns - 1) :
           hist.prev[y][x].alive /\ cells[y][x].alive

RECURSIVE SumAges(_, _, _, _)
SumAges(prev, x, y, ds) ==
    IF ds = {} THEN 0
    ELSE LET d == CHOOSE e \in ds : TRUE
         IN  prev[(y + d[2]) % rows][(x + d[1]) % columns].age
             + SumAges(prev, x, y, ds \ {d})

MeanAge(prev, x, y) ==
    IF AliveAround(prev, x, y) = {} THEN 0
    ELSE SumAges(prev, x, y, AliveAround(prev, x, y))
         \div Cardinality(AliveAround(prev, x, y))

\* C2: after a tick a surviving cell has its old age + 1, a cell born has
\* 1 + the truncated mean of the pre-tick ages of its pre-tick-alive
\* neighbours, a dead cell has age 0: the ages depend on the pre-tick grid only.
C2_AgesFromPreTickGrid ==
    hist.op = "tick" =>
        \A y \in 0..(rows - 1), x \in 0..(columns - 1) :
            cells[y][x].age =
                IF ~cells[y][x].alive THEN 0
                ELSE IF hist.prev[y][x].alive THEN hist.prev[y][x].age + 1
                ELSE 1 + MeanAge(hist.prev, x, y)

-----------------------------------------------------------------------------
(* Run: the simulation loop, the intake queue and the request handlers *)

\* make(chan Pattern, 2)
QueueCap == 2

\* a slip that would let a send complete whatever the queue holds
CanSendMutAlways(q) == TRUE

\* pChan <- pattern completes only while the buffer has room
CanSend(q) == Len(q) < QueueCap

ChanSend(q, v) == Append(q, v)

\* a slip that would take the newest pattern instead
ChanRecvMutLast(q) == [v |-> q[Len(q)], q |-> SubSeq(q, 1, Len(q) - 1)]

\* pattern := <-g.pChan takes the oldest pattern of the buffer
ChanRecv(q) == [v |-> Head(q), q |-> Tail(q)]

\* the decoder Run picks for a pattern received from the queue
IntakeDecode(g, rule, pattern) ==
    IF HasPrefix(pattern[1], Life105Magic) THEN ParseLife105(g, rule, pattern)
    ELSE IF isRLE(pattern) THEN ParseRLE(g, rule, pattern, 0, 0)
    ELSE ParsePlaintext(g, rule, pattern)

\* 1000/uint32(cfg.Fps)
FramePeriod(c) == 1000 \div c.Fps

\* a slip that would repeat the select without leaving the iteration
LoopTopMutSelect == "recv"

\* `for running {`: where the loop goes on after the select
LoopTop == "events"

\* requests accepted by the handler, and ticks of the loop, in one behaviour
MaxPosts == 3

MaxLoopTicks == 2

\* the world and the command line of the loop's specification
LoopWorld == [rows |-> 1, columns |-> 2]

LoopCfg ==
    [Rule |-> <<"B", "3", "/", "S", "2", "3">>, HasPattern |-> FALSE,
     PatternFile |-> <<>>, Empty |-> TRUE, Pause |-> FALSE, Server |-> TRUE,
     Fps |-> 1000]

\* the bodies posted to the server: a plaintext pattern, a Life 1.05 pattern
\* with an illegal character, an RLE pattern with an empty line before its
\* header
LoopPatterns ==
    { <<<<"O">>>>,
      << <<"#", "L", "i", "f", "e", " ", "1", ".", "0", "5">>, <<"x">> >>,
      << <<>>, <<"x", " ", "=", " ", "1", ",", " ", "y", " ", "=", " ", "1">>,
         <<"o", "!">> >> }

LoopMethods == {"GET", "POST"}

LoopKeys == {"quit", "space", "s", "r"}

\* the handlers that wait to send, as the number of them for each pattern
NoHandlers == [p \in LoopPatterns \cup {<<>>} |-> 0]

Waiting(h) == {p \in DOMAIN h : h[p] > 0}

RECURSIVE CountWaiting(_, _)
CountWaiting(h, ps) ==
    IF ps = {} THEN 0
    ELSE LET p == CHOOSE q \in ps : TRUE
         IN  h[p] + CountWaiting(h, ps \ {p})

InitLoop ==
    /\ rows = LoopWorld.rows
    /\ columns = LoopWorld.columns
    /\ LET i == InitializeCells(rows, columns, LoopCfg, NoGame, {})
       IN  /\ cells = i.cells
           /\ birth = i.birth
           /\ stayAlive = i.stayAlive
           /\ cfg = [LoopCfg EXCEPT !.Rule = i.rule]
           /\ status = i.status
    /\ liveCells = 0 /\ age = 0
    /\ running = TRUE /\ oneStep = FALSE /\ pause = LoopCfg.Pause
    /\ fpsElapsed = 0 /\ pc = "events"
    /\ pChan = <<>> /\ handlers = NoHandlers
    /\ input = <<>> /\ output = NoOutput
    /\ hist = [sent |-> <<>>, recv |-> <<>>, ticks |-> 0, recvSinceTick |-> 0]

\* the key r: g.InitializeCells()
KeyReset ==
    LET i == InitializeCells(rows, columns, cfg,
                             [cells |-> cells, birth |-> birth,
                              stayAlive |-> stayAlive], {})
    IN  /\ age' = 0
        /\ cells' = i.cells
        /\ birth' = i.birth
        /\ stayAlive' = i.stayAlive
        /\ cfg' = [cfg EXCEPT !.Rule = i.rule]
        /\ status' = i.status
        /\ UNCHANGED <<running, pause, oneStep>>

\* one event taken from sdl.PollEvent() and handled by the switch
PollEvent(key) ==
    /\ status = "run" /\ pc = "events"
    /\ \/ /\ key = "quit"
          /\ running' = FALSE
          /\ UNCHANGED <<pause, oneStep, age, cells, birth, stayAlive, cfg, status>>
       \/ /\ key = "space"
          /\ pause' = ~pause
          /\ UNCHANGED <<running, oneStep, age, cells, birth, stayAlive, cfg, status>>
       \/ /\ key = "s"
          /\ pause' = TRUE
          /\ oneStep' = TRUE
          /\ UNCHANGED <<running, age, cells, birth, stayAlive, cfg, status>>
       \/ /\ key = "r"
          /\ KeyReset
    /\ UNCHANGED <<rows, columns, liveCells, fpsElapsed, pc, pChan, handlers,
                   input, output, hist>>

\* the milliseconds since fpsTime that sdl.GetTicks() can show after the
\* sleep, counted up to one past the frame period; once MaxLoopTicks ticks
\* have run the clock stays short of the deadline
TicksAfterSleep ==
    IF hist.ticks < MaxLoopTicks
    THEN {e \in 0..(FramePeriod(cfg) + 1) :
              e > fpsElapsed \/ e = FramePeriod(cfg) + 1}
    ELSE {e \in 0..FramePeriod(cfg) : e > fpsElapsed \/ e = FramePeriod(cfg)}

\* a slip that would leave the single step pending after its frame
FrameMutKeepStep ==
    /\ status = "run" /\ pc = "events"
    /\ \E now \in TicksAfterSleep :
        IF now > FramePeriod(cfg) /\ (~pause \/ oneStep)
        THEN LET n == NextFrame(cells, birth, stayAlive, liveCells, age)
             IN  /\ cells' = n.cells
                 /\ liveCells' = n.liveCells
                 /\ age' = n.age
                 /\ fpsElapsed' = 0
                 /\ hist' = [hist EXCEPT !.ticks = @ + 1, !.recvSinceTick = 0]
        ELSE /\ fpsElapsed' = now
             /\ UNCHANGED <<cells, liveCells, age, hist>>
    /\ pc' = "recv"
    /\ UNCHANGED <<rows, columns, birth, stayAlive, cfg, running, pause, pChan,
                   handlers, status, input, output, oneStep>>

\* sdl.PollEvent() returns nil; time.Sleep; the frame of this iteration, if
\* it is due
Frame ==
    /\ status = "run" /\ pc = "events"
    /\ \E now \in TicksAfterSleep :
        IF now > FramePeriod(cfg) /\ (~pause \/ oneStep)
        THEN LET n == NextFrame(cells, birth, stayAlive, liveCells, age)
             IN  /\ cells' = n.cells
                 /\ liveCells' = n.liveCells
                 /\ age' = n.age
                 /\ fpsElapsed' = 0
                 /\ oneStep' = FALSE
                 /\ hist' = [hist EXCEPT !.ticks = @ + 1, !.recvSinceTick = 0]
        ELSE /\ fpsElapsed' = now
             /\ UNCHANGED <<cells, liveCells, age, oneStep, hist>>
    /\ pc' = "recv"
    /\ UNCHANGED <<rows, columns, birth, stayAlive, cfg, running, pause, pChan,
                   handlers, status, input, output>>

\* the end of an iteration: `for running`
EndIteration(st) ==
    /\ pc' = IF st = "run" /\ running THEN LoopTop ELSE "done"
    /\ status' = IF st = "run" /\ ~running THEN "quit" ELSE st

\* the select finds a pattern in the queue and decodes it
Receive ==
    /\ status = "run" /\ pc = "recv"
    /\ cfg.Server /\ Len(pChan) > 0
    /\ LET r == ChanRecv(pChan)
           d == IntakeDecode([rows |-> rows, columns |-> columns, cells |-> cells],
                             cfg.Rule, r.v)
       IN  /\ pChan' = r.q
           /\ cells' = d.g.cells
           /\ cfg' = [cfg EXCEPT !.Rule = d.rule]
           /\ hist' = [hist EXCEPT !.recv = Append(@, r.v),
                                   !.recvSinceTick = @ + 1]
           /\ EndIteration(IF d.panic THEN "panic" ELSE "run")
    /\ UNCHANGED <<rows, columns, liveCells, age, birth, stayAlive, running,
                   oneStep, pause, fpsElapsed, handlers, input, output>>

\* a slip that would receive without a default case: the iteration goes on
\* only when there is no queue
ReceiveDefaultMutBlock ==
    /\ status = "run" /\ pc = "recv"
    /\ ~cfg.Server
    /\ EndIteration("run")
    /\ UNCHANGED gameVars
    /\ UNCHANGED <<running, oneStep, pause, fpsElapsed, pChan, handlers, input,
                   output, hist>>

\* the select takes its default case, or there is no queue
ReceiveDefault ==
    /\ status = "run" /\ pc = "recv"
    /\ ~cfg.Server \/ Len(pChan) = 0
    /\ EndIteration("run")
    /\ UNCHANGED gameVars
    /\ UNCHANGED <<running, oneStep, pause, fpsElapsed, pChan, handlers, input,
                   output, hist>>

\* a slip that would leave out the check of an empty pattern
RequestMutEmpty(method, body) ==
    /\ status = "run" /\ cfg.Server
    /\ Len(hist.sent) + CountWaiting(handlers, LoopPatterns) < MaxPosts
    /\ IF method # "POST"
       THEN UNCHANGED handlers
       ELSE handlers' = [handlers EXCEPT ![body] = @ + 1]
    /\ UNCHANGED gameVars
    /\ UNCHANGED <<running, oneStep, pause, fpsElapsed, pc, pChan, status, input,
                   output, hist>>

\* a request reaches the handler: it is answered at once, or its pattern is
\* ready to be sent to the queue
Request(method, body) ==
    /\ status = "run" /\ cfg.Server
    /\ Len(hist.sent) + CountWaiting(handlers, LoopPatterns) < MaxPosts
    /\ IF method # "POST" \/ Len(body) = 0
       THEN UNCHANGED handlers
       ELSE handlers' = [handlers EXCEPT ![body] = @ + 1]
    /\ UNCHANGED gameVars
    /\ UNCHANGED <<running, oneStep, pause, fpsElapsed, pc, pChan, status, input,
                   output, hist>>

\* pChan <- pattern of a handler completes
Send(pattern) ==
    /\ status = "run"
    /\ pattern \in Waiting(handlers)
    /\ CanSend(pChan)
    /\ pChan' = ChanSend(pChan, pattern)
    /\ handlers' = [handlers EXCEPT ![pattern] = @ - 1]
    /\ hist' = [hist EXCEPT !.sent = Append(@, pattern)]
    /\ UNCHANGED gameVars
    /\ UNCHANGED <<running, oneStep, pause, fpsElapsed, pc, status, input, output>>

NextLoop ==
    \/ \E key \in LoopKeys : PollEvent(key)
    \/ Frame
    \/ Receive
    \/ ReceiveDefault
    \/ \E method \in LoopMethods, body \in LoopPatterns \cup {<<>>} :
           Request(method, body)
    \/ \E pattern \in LoopPatterns : Send(pattern)

SpecLoop == InitLoop /\ [][NextLoop]_vars

\* C6 as stated: between two consecutive ticks (NextFrame executions) at most
\* one pattern is received from the queue and decoded.
C6_OnePatternPerTick ==
    [][hist'.ticks > hist.ticks /\ hist.ticks >= 1 =>
          hist.recvSinceTick <= 1]_vars

\* C6, amended: the loop receives at most one pattern in one iteration (a
\* receive is the last step of its iteration and the next one starts with the
\* events), so two queued patterns are received in two different iterations,
\* whether or not a NextFrame runs between them.
C6_OnePatternPerIteration ==
    [][Len(hist'.recv) > Len(hist.recv) =>
          /\ pc = "recv"
          /\ pc' # "recv"
          /\ Len(hist'.recv) = Len(hist.recv) + 1]_vars

\* after a tick, two patterns have been received with no tick between them
C6_Witness ==
    /\ hist.recvSinceTick = 2
    /\ hist.ticks >= 1
    /\ pc = "events"

\* C7: the patterns are received in the order in which their sends completed,
\* each one once: the completed sends are the patterns received so far
\* followed by the patterns still in the queue.
C7_FifoExactlyOnce == hist.sent = hist.recv \o pChan

\* two different patterns have gone through the queue and a third waits in it
C7_Witness ==
    /\ Len(hist.recv) >= 2
    /\ hist.recv[1] # hist.recv[2]
    /\ Len(pChan) >= 1

\* C8: the queue never holds more than 2 patterns, and while it holds 2 no
\* send completes: the queue and the completed sends stay as they are until
\* the loop has received a pattern.
C8_Backpressure ==
    /\ [](Len(pChan) <= QueueCap)
    /\ [][Len(pChan) = QueueCap =>
             /\ hist'.sent = hist.sent
             /\ pChan' = pChan \/ pChan' = Tail(pChan)]_vars

\* a handler waits to send while the queue holds 2 patterns
C8_Witness == Len(pChan) = QueueCap /\ Waiting(handlers) # {}

\* C9: the iteration that receives a pattern completes and the loop goes on,
\* whatever the lines of the pattern are: no received pattern crashes it.
C9_PatternNeverStopsLoop == Len(hist.recv) > 0 => status # "panic"

-----------------------------------------------------------------------------
(* ParseRLE on its own *)

\* the inputs have at most MaxRleLines lines
MaxRleLines == 3

\* an empty line, a comment, a header without and with a rule, and two lines
\* of runs
RleLineSet ==
    { <<>>,
      <<"#", "C">>,
      <<"x", "=", "1", ",", "y", "=", "1">>,
      <<"x", "=", "1", ",", "y", "=", "1", ",", "r", "u", "l", "e", "=", "B",
        "2", "/", "S", "3">>,
      <<"o", "!">>,
      <<"3", "b">> }

RleWorld == [rows |-> 2, columns |-> 2]

\* a world whose cells are all dead, or all alive after one tick
RleWorldCells(alive) ==
    [y \in 0..(RleWorld.rows - 1) |-> [x \in 0..(RleWorld.columns - 1) |->
        [Cell(x, y) EXCEPT !.alive = alive, !.aliveNext = alive,
                           !.age = IF alive THEN 1 ELSE 0]]]

InitRLE ==
    /\ input \in Strings(RleLineSet, MaxRleLines)
    /\ rows = RleWorld.rows
    /\ columns = RleWorld.columns
    /\ \E alive \in BOOLEAN : cells = RleWorldCells(alive)
    /\ liveCells = 0 /\ age = 0
    /\ birth = MakeMap({3}) /\ stayAlive = MakeMap({2, 3})
    /\ cfg = [Rule |-> <<"B", "3", "/", "S", "2", "3">>, HasPattern |-> FALSE,
              PatternFile |-> <<>>, Empty |-> FALSE, Pause |-> FALSE,
              Server |-> FALSE]
    /\ output = NoOutput
    /\ hist = NoHist
    /\ IdleLoop

\* g.ParseRLE(lines, 0, 0)
CallParseRLE ==
    /\ ~output.done
    /\ LET d == ParseRLE([rows |-> rows, columns |-> columns, cells |-> cells],
                         cfg.Rule, input, 0, 0)
       IN  /\ cells' = d.g.cells
           /\ cfg' = [cfg EXCEPT !.Rule = d.rule]
           /\ output' = [done |-> TRUE, err |-> d.err, panic |-> d.panic]
           /\ status' = IF d.panic THEN "panic" ELSE status
    /\ hist' = [op |-> "rle", prev |-> cells, rule |-> cfg.Rule]
    /\ UNCHANGED <<rows, columns, liveCells, age, birth, stayAlive, input>>
    /\ UNCHANGED <<running, oneStep, pause, fpsElapsed, pc, pChan, handlers>>

NextRLE == CallParseRLE

SpecRLE == InitRLE /\ [][NextRLE]_vars

\* the index of the header line of the input, 0 when no line matches
HeaderLine(lines) ==
    IF isRLE(lines)
    THEN CHOOSE i \in 1..Len(lines) :
             RleMatches(lines[i]) /\ \A j \in 1..(i - 1) : ~RleMatches(lines[j])
    ELSE 0

\* some line before the header line (any line, when there is no header line)
\* does not begin with '#'
LineWithoutHash(lines) ==
    \E j \in 1..Len(lines) :
        /\ HeaderLine(lines) = 0 \/ j < HeaderLine(lines)
        /\ Len(lines[j]) = 0 \/ lines[j][1] # "#"

\* C10: ParseRLE returns the header error and writes no cell when a line
\* before the header line does not begin with '#' (an empty line included)
\* and when the input has no header line.
C10_BadHeaderIsError ==
    (output.done /\ (HeaderLine(input) = 0 \/ LineWithoutHash(input))) =>
        /\ ~output.panic
        /\ output.err = ErrRLEHeader
        /\ cells = hist.prev

\* the text "rule", as it stands in a header line
RuleWord == <<"r", "u", "l", "e">>

RuleWordAt(line, i) ==
    i + 3 <= Len(line) /\ SubSeq(line, i, i + 3) = RuleWord

\* where the header line has its `rule` part, 0 when it has none
RulePartAt(line) ==
    IF \E i \in 1..Len(line) : RuleWordAt(line, i)
    THEN CHOOSE i \in 1..Len(line) :
             RuleWordAt(line, i) /\ \A j \in 1..(i - 1) : ~RuleWordAt(line, j)
    ELSE 0

RECURSIVE DropSpaces(_)
DropSpaces(t) == IF t # <<>> /\ Head(t) = " " THEN DropSpaces(Tail(t)) ELSE t

\* the rulestring written after `rule =` in a header line that has the part
HeaderRuleText(line) ==
    LET r == DropSpaces(SubSeq(line, RulePartAt(line) + 4, Len(line)))
    IN  DropSpaces(Tail(r))

\* C11: a successful RLE decode sets the active rule string to the rule of
\* the header line when the header has a `rule = ...` part, and leaves the
\* active rule string as it was when the header has only x and y.
C11_HeaderRuleOrUnchanged ==
    (output.done /\ ~output.panic /\ output.err = "") =>
        cfg.Rule = IF RulePartAt(input[HeaderLine(input)]) # 0
                   THEN HeaderRuleText(input[HeaderLine(input)])
                   ELSE hist.rule

-----------------------------------------------------------------------------
(* ParseRLE on patterns of a given box *)

\* the body of a pattern has at most MaxBodyLen characters
MaxBodyLen == 4

BodyAlphabet == {"o", "b", "$", "!", "2"}

BoxWorld == [rows |-> 4, columns |-> 4]

BoxSides == 1..2

\* the digit that stands for n, 0 <= n <= 9
DigitFor(n) == DigitChars[n + 1]

\* the header line `x=<w>,y=<h>`
BoxHeader(w, h) == <<"x", "=", DigitFor(w), ",", "y", "=", DigitFor(h)>>

BoxWorldCells(alive) ==
    [y \in 0..(BoxWorld.rows - 1) |-> [x \in 0..(BoxWorld.columns - 1) |->
        [Cell(x, y) EXCEPT !.alive = alive, !.aliveNext = alive,
                           !.age = IF alive THEN 1 ELSE 0]]]

InitBox ==
    /\ \E w \in BoxSides, h \in BoxSides, body \in Strings(BodyAlphabet, MaxBodyLen) :
          /\ input = <<BoxHeader(w, h), body>>
          /\ hist = [op |-> "init", w |-> w, h |-> h]
    /\ rows = BoxWorld.rows
    /\ columns = BoxWorld.columns
    /\ \E alive \in BOOLEAN : cells = BoxWorldCells(alive)
    /\ liveCells = 0 /\ age = 0
    /\ birth = MakeMap({3}) /\ stayAlive = MakeMap({2, 3})
    /\ cfg = [Rule |-> <<"B", "3", "/", "S", "2", "3">>, HasPattern |-> FALSE,
              PatternFile |-> <<>>, Empty |-> FALSE, Pause |-> FALSE,
              Server |-> FALSE]
    /\ output = NoOutput
    /\ IdleLoop

\* g.ParseRLE(lines, 0, 0) on a header and one line of runs
CallParseRLEBox ==
    /\ ~output.done
    /\ LET d == ParseRLE([rows |-> rows, columns |-> columns, cells |-> cells],
                         cfg.Rule, input, 0, 0)
       IN  /\ cells' = d.g.cells
           /\ cfg' = [cfg EXCEPT !.Rule = d.rule]
           /\ output' = [done |-> TRUE, err |-> d.err, panic |-> d.panic]
           /\ status' = IF d.panic THEN "panic" ELSE status
    /\ hist' = [op |-> "rle", w |-> hist.w, h |-> hist.h, prev |-> cells]
    /\ UNCHANGED <<rows, columns, liveCells, age, birth, stayAlive, input>>
    /\ UNCHANGED <<running, oneStep, pause, fpsElapsed, pc, pChan, handlers>>

NextBox == CallParseRLEBox

SpecBox == InitBox /\ [][NextBox]_vars

\* the reading of a line of runs by the RLE format: the cells marked alive,
\* as <<column, row>> from the corner of the box, and whether the line is
\* well formed for a box of w columns and h rows (every run inside the box,
\* every row inside the box, no count left over, `!` last)
RECURSIVE RleReading(_, _, _, _, _, _, _, _)
RleReading(body, i, w, h, col, row, count, live) ==
    IF i > Len(body) THEN [ok |-> FALSE, live |-> live]
    ELSE IF IsDigit(body[i])
    THEN RleReading(body, i + 1, w, h, col, row,
                    count * 10 + DigitVal(body[i]), live)
    ELSE IF body[i] = "!"
    THEN [ok |-> count = 0 /\ i = Len(body), live |-> live]
    ELSE IF body[i] = "$"
    THEN IF row + (IF count = 0 THEN 1 ELSE count) >= h
         THEN [ok |-> FALSE, live |-> live]
         ELSE RleReading(body, i + 1, w, h, 0,
                         row + (IF count = 0 THEN 1 ELSE count), 0, live)
    ELSE IF col + (IF count = 0 THEN 1 ELSE count) > w
    THEN [ok |-> FALSE, live |-> live]
    ELSE RleReading(body, i + 1, w, h, col + (IF count = 0 THEN 1 ELSE count),
                    row, 0,
                    IF body[i] = "o"
                    THEN live \cup {<<c, row>> :
                             c \in col..(col + (IF count = 0 THEN 1 ELSE count) - 1)}
                    ELSE live)

BoxReading == RleReading(input[2], 1, hist.w, hist.h, 0, 0, 0, {})

\* the corner of the box in the world: the translated origin
BoxCorner == [x |-> columns \div 2, y |-> rows \div 2]

\* C12: after a successful ParseRLE of a well-formed pattern whose box fits
\* in the grid without wrapping, a cell of the box is alive iff the pattern
\* marks it alive, whatever the grid held before: what the pattern does not
\* write inside the box is set dead.
C12_BoxIsPattern ==
    (/\ output.done /\ ~output.panic /\ output.err = ""
     /\ BoxReading.ok
     /\ BoxCorner.x + hist.w <= columns /\ BoxCorner.y + hist.h <= rows) =>
        \A c \in 0..(hist.w - 1), r \in 0..(hist.h - 1) :
            cells[BoxCorner.y + r][BoxCorner.x + c].alive
                = (<<c, r>> \in BoxReading.live)

-----------------------------------------------------------------------------
(* One rectangular pattern decoded as RLE and as plaintext *)

\* the patterns have at most MaxBoxCells cells
MaxBoxCells == 6

PairWorld == [rows |-> 3, columns |-> 3]

\* the number of cells from position i of the row that are as the i-th
RECURSIVE RunLength(_, _, _)
RunLength(bits, i, k) ==
    IF k <= Len(bits) /\ bits[k] = bits[i] THEN 1 + RunLength(bits, i, k + 1) ELSE 0

\* the runs of a row from position i: <count><tag>, the count left out when 1
RECURSIVE RowRuns(_, _)
RowRuns(bits, i) ==
    IF i > Len(bits) THEN <<>>
    ELSE (IF RunLength(bits, i, i) > 1 THEN <<DigitFor(RunLength(bits, i, i))>>
          ELSE <<>>)
         \o <<IF bits[i] THEN "o" ELSE "b">>
         \o RowRuns(bits, i + RunLength(bits, i, i))

RowBits(w, r, live) == [c \in 1..w |-> <<c - 1, r>> \in live]

\* the RLE text of the w x h pattern with the cells of live alive: the header,
\* then one line for each row, ended by `$`, the last one by `!`
RleEncoding(w, h, live) ==
    <<BoxHeader(w, h)>> \o
    [r \in 1..h |-> RowRuns(RowBits(w, r - 1, live), 1)
                    \o <<IF r = h THEN "!" ELSE "$">>]

\* the plaintext of the same pattern: one line for each row, O alive, . dead
PlaintextEncoding(w, h, live) ==
    [r \in 1..h |-> [c \in 1..w |-> IF <<c - 1, r - 1>> \in live THEN "O" ELSE "."]]

LiveSet(cs) ==
    {p \in Coords(Cardinality(DOMAIN cs), Cardinality(DOMAIN cs[0])) :
         cs[p[2]][p[1]].alive}

InitPair ==
    /\ rows = PairWorld.rows
    /\ columns = PairWorld.columns
    /\ cells = DeadCells(rows, columns)
    /\ \E w \in 1..columns, h \in 1..rows :
          /\ w * h <= MaxBoxCells
          /\ \E live \in SUBSET ((0..(w - 1)) \X (0..(h - 1))) :
                /\ input = [rle |-> RleEncoding(w, h, live),
                            plain |-> PlaintextEncoding(w, h, live)]
                /\ hist = [op |-> "init", w |-> w, h |-> h, live |-> live]
    /\ liveCells = 0 /\ age = 0
    /\ birth = MakeMap({3}) /\ stayAlive = MakeMap({2, 3})
    /\ cfg = [Rule |-> <<"B", "3", "/", "S", "2", "3">>, HasPattern |-> FALSE,
              PatternFile |-> <<>>, Empty |-> TRUE, Pause |-> FALSE,
              Server |-> FALSE]
    /\ output = NoOutput
    /\ IdleLoop

\* the result of a decode, as far as the comparison goes
DecodeResult(d) == [err |-> d.err, panic |-> d.panic, live |-> LiveSet(d.g.cells)]

\* g.ParseRLE(lines, 0, 0) on the all-dead grid, and g.ParsePlaintext(lines)
\* on another all-dead grid of the same size
CallBothDecoders ==
    /\ ~output.done
    /\ output' = [done |-> TRUE,
                  rle |-> DecodeResult(
                      ParseRLE([rows |-> rows, columns |-> columns, cells |-> cells],
                               cfg.Rule, input.rle, 0, 0)),
                  plain |-> DecodeResult(
                      ParsePlaintext([rows |-> rows, columns |-> columns,
                                      cells |-> cells], cfg.Rule, input.plain))]
    /\ hist' = [hist EXCEPT !.op = "pair"]
    /\ UNCHANGED <<input, status>>
    /\ UNCHANGED gameVars
    /\ UNCHANGED <<running, oneStep, pause, fpsElapsed, pc, pChan, handlers>>

NextPair == CallBothDecoders

SpecPair == InitPair /\ [][NextPair]_vars

\* C13: the RLE text and the plaintext of one rectangular pattern that fits
\* in the grid, each decoded onto an all-dead grid, give the same set of live
\* cell coordinates.
C13_RleAndPlaintextAgree ==
    output.done =>
        /\ ~output.rle.panic /\ output.rle.err = ""
        /\ ~output.plain.panic /\ output.plain.err = ""
        /\ output.rle.live = output.plain.live

-----------------------------------------------------------------------------
(* ParseLife105 on its own *)

\* the inputs have at most MaxLifeLines lines; the fields of a #R line have
\* at most MaxFieldLen digits
MaxLifeLines == 3

MaxFieldLen == 2

LifeWorld == [rows |-> 2, columns |-> 3]

\* the text of a small integer
IntText(n) == IF n < 0 THEN <<"-", DigitFor(-n)>> ELSE <<DigitFor(n)>>

\* the line `#P <r> <c>`
PosLine(r, c) == <<"#", "P", " ">> \o IntText(r) \o <<" ">> \o IntText(c)

\* the positions tried: the origin, a negative row, a negative column
PosPairs == {<<0, 0>>, <<-1, 1>>, <<1, -2>>}

\* the line `#R <s>/<b>`
RuleLine(s, b) == <<"#", "R", " ">> \o s \o <<"/">> \o b

FieldDigits == {"0", "2", "3"}

RuleFields == Strings(FieldDigits, MaxFieldLen) \ {<<>>}

\* positions, a comment, an empty line, lines of cells, and a line with a
\* character that is neither '.' nor '*' after two that are
LifeLineSet ==
    {PosLine(p[1], p[2]) : p \in PosPairs} \cup
    { <<"#", "N">>, <<>>, <<"*", ".">>, <<".", "*", "*", "*">>,
      <<"*", ".", "x">> }

LifeInputs ==
    Strings(LifeLineSet, MaxLifeLines) \cup
    {<<RuleLine(s, b)>> : s \in RuleFields, b \in RuleFields}

LifeWorldCells(alive) ==
    [y \in 0..(LifeWorld.rows - 1) |-> [x \in 0..(LifeWorld.columns - 1) |->
        [Cell(x, y) EXCEPT !.alive = alive, !.aliveNext = alive,
                           !.age = IF alive THEN 1 ELSE 0]]]

InitLife ==
    /\ input \in LifeInputs
    /\ rows = LifeWorld.rows
    /\ columns = LifeWorld.columns
    /\ \E alive \in BOOLEAN : cells = LifeWorldCells(alive)
    /\ liveCells = 0 /\ age = 0
    /\ birth = MakeMap({3}) /\ stayAlive = MakeMap({2, 3})
    /\ cfg = [Rule |-> <<"B", "3", "/", "S", "2", "3">>, HasPattern |-> FALSE,
              PatternFile |-> <<>>, Empty |-> FALSE, Pause |-> FALSE,
              Server |-> FALSE]
    /\ output = NoOutput
    /\ hist = NoHist
    /\ IdleLoop

\* g.ParseLife105(lines)
CallParseLife105 ==
    /\ ~output.done
    /\ LET d == ParseLife105([rows |-> rows, columns |-> columns, cells |-> cells],
                             cfg.Rule, input)
       IN  /\ cells' = d.g.cells
           /\ cfg' = [cfg EXCEPT !.Rule = d.rule]
           /\ output' = [done |-> TRUE, err |-> d.err, panic |-> d.panic]
           /\ status' = IF d.panic THEN "panic" ELSE status
    /\ hist' = [op |-> "life105", prev |-> cells, rule |-> cfg.Rule]
    /\ UNCHANGED <<rows, columns, liveCells, age, birth, stayAlive, input>>
    /\ UNCHANGED <<running, oneStep, pause, fpsElapsed, pc, pChan, handlers>>

NextLife == CallParseLife105

SpecLife == InitLife /\ [][NextLife]_vars

\* The reading of a Life 1.05 file as the format describes it: a list of
\* writes [x, y, alive], in file order, stopped at the first character that
\* is neither '.' nor '*'.
IsPosLine(line) == \E p \in PosPairs : line = PosLine(p[1], p[2])

PosOf(line) == CHOOSE p \in PosPairs : line = PosLine(p[1], p[2])

IsDataLine(line) == ~HasPrefix(line, <<"#">>)

LegalCells == {".", "*"}

\* the index of the first illegal character of a line, or one past its end
FirstIllegal(line) ==
    IF \E j \in 1..Len(line) : line[j] \notin LegalCells
    THEN CHOOSE j \in 1..Len(line) :
            /\ line[j] \notin LegalCells
            /\ \A k \in 1..(j - 1) : line[k] \in LegalCells
    ELSE Len(line) + 1

HasIllegal(line) == IsDataLine(line) /\ FirstIllegal(line) <= Len(line)

\* the writes of a line of cells whose first character goes to column bx of
\* row by (both before wrapping)
LineWrites(line, bx, by) ==
    [j \in 1..(FirstIllegal(line) - 1) |->
        [x |-> (bx + j - 1) % columns, y |-> by % rows, alive |-> line[j] = "*"]]

\* bx, by: where the first cell line after the last position line starts;
\* i: the lines of cells since then
RECURSIVE LifeReading(_, _, _, _, _, _)
LifeReading(lines, k, bx, by, i, acc) ==
    IF k > Len(lines) THEN acc
    ELSE IF IsPosLine(lines[k])
    THEN LifeReading(lines, k + 1, (columns \div 2) + PosOf(lines[k])[2],
                     (rows \div 2) + PosOf(lines[k])[1], 0, acc)
    ELSE IF ~IsDataLine(lines[k])
    THEN LifeReading(lines, k + 1, bx, by, i, acc)
    ELSE IF HasIllegal(lines[k])
    THEN acc \o LineWrites(lines[k], bx, by + i)
    ELSE LifeReading(lines, k + 1, bx, by, i + 1,
                     acc \o LineWrites(lines[k], bx, by + i))

\* a grid after a list of writes
RECURSIVE Written(_, _, _)
Written(cs, ws, k) ==
    IF k > Len(ws) THEN cs
    ELSE Written([cs EXCEPT ![ws[k].y][ws[k].x] =
                    [@ EXCEPT !.alive = ws[k].alive, !.aliveNext = ws[k].alive,
                              !.age = IF ws[k].alive THEN @ ELSE 0]],
                 ws, k + 1)

\* before any position line the cursor is at column 0 of row 0
LifeWritten(prev, lines) == Written(prev, LifeReading(lines, 1, 0, 0, 0, <<>>), 1)

\* C14: a file with a line of cells holding a character other than '.' and
\* '*' is refused with an error; the cells written before that character keep
\* what was written, and every other cell is as it was before the call.
C14_IllegalCharIsErrorNoRollback ==
    (output.done /\ hist.op = "life105" /\ \E k \in 1..Len(input) : HasIllegal(input[k])) =>
        /\ ~output.panic
        /\ output.err # ""
        /\ cells = LifeWritten(hist.prev, input)

\* the failing line has made a cell alive before its illegal character
C14_Witness ==
    /\ output.done /\ hist.op = "life105"
    /\ output.err = ErrIllegal
    /\ \E y \in 0..(rows - 1), x \in 0..(columns - 1) :
            cells[y][x].alive /\ ~hist.prev[y][x].alive

\* the line `#R s/b` given to the decoder
IsRuleInput == Len(input) = 1 /\ HasPrefix(input[1], <<"#", "R", " ">>)

StayText == Split(SubSeq(input[1], 4, Len(input[1])), "/")[1]

BirthText == Split(SubSeq(input[1], 4, Len(input[1])), "/")[2]

\* C15: after `#R s/b` the rule is "B" b "/S" s, every digit kept as written.
C15_RuleLineKeepsDigits ==
    (output.done /\ hist.op = "life105" /\ IsRuleInput) =>
        /\ output.err = ""
        /\ cfg.Rule = <<"B">> \o BirthText \o <<"/", "S">> \o StayText

\* the first line that is not a comment is a position line
RECURSIVE PositionFirst(_, _)
PositionFirst(lines, k) ==
    IF k > Len(lines) THEN TRUE
    ELSE IF IsPosLine(lines[k]) THEN TRUE
    ELSE IF IsDataLine(lines[k]) THEN FALSE
    ELSE PositionFirst(lines, k + 1)

\* C16: after `#P r c`, character j of the i-th following line of cells sets
\* the cell at column (columns/2 + c + j) mod columns, row (rows/2 + r + i)
\* mod rows: alive for '*', dead for '.'.
C16_PositionLinePlacesCells ==
    (output.done /\ hist.op = "life105" /\ output.err = "" /\ PositionFirst(input, 1)) =>
        /\ ~output.panic
        /\ cells = LifeWritten(hist.prev, input)

\* a position with a negative number, followed by two lines of cells, has
\* changed the grid
C16_Witness ==
    /\ output.done /\ hist.op = "life105" /\ output.err = ""
    /\ Len(input) = 3
    /\ input[1] = PosLine(1, -2)
    /\ IsDataLine(input[2]) /\ input[2] # <<>>
    /\ IsDataLine(input[3]) /\ input[3] # <<>>
    /\ cells # hist.prev

-----------------------------------------------------------------------------
(* ParsePlaintext on its own *)

MaxPlainLines == 3

\* a comment, an empty line, lines of cells with several glyphs for alive,
\* and a line longer than the world is wide
PlainLineSet ==
    { <<"!", "O">>, <<>>, <<"O", ".">>, <<".", "*", "x">>,
      <<".", "O", ".", "O">>, <<".">> }

InitPlain ==
    /\ input \in Strings(PlainLineSet, MaxPlainLines)
    /\ rows = LifeWorld.rows
    /\ columns = LifeWorld.columns
    /\ \E alive \in BOOLEAN : cells = LifeWorldCells(alive)
    /\ liveCells = 0 /\ age = 0
    /\ birth = MakeMap({3}) /\ stayAlive = MakeMap({2, 3})
    /\ cfg = [Rule |-> <<"B", "3", "/", "S", "2", "3">>, HasPattern |-> FALSE,
              PatternFile |-> <<>>, Empty |-> FALSE, Pause |-> FALSE,
              Server |-> FALSE]
    /\ output = NoOutput
    /\ hist = NoHist
    /\ IdleLoop

\* g.ParsePlaintext(lines)
CallParsePlaintext ==
    /\ ~output.done
    /\ LET d == ParsePlaintext([rows |-> rows, columns |-> columns, cells |-> cells],
                               cfg.Rule, input)
       IN  /\ cells' = d.g.cells
           /\ output' = [done |-> TRUE, err |-> d.err, panic |-> d.panic]
           /\ status' = IF d.panic THEN "panic" ELSE status
    /\ hist' = [op |-> "plaintext", prev |-> cells]
    /\ UNCHANGED <<rows, columns, liveCells, age, birth, stayAlive, cfg, input>>
    /\ UNCHANGED <<running, oneStep, pause, fpsElapsed, pc, pChan, handlers>>

NextPlain == CallParsePlaintext

SpecPlain == InitPlain /\ [][NextPlain]_vars

IsPlainComment(line) == Len(line) > 0 /\ line[1] = "!"

\* the writes of a plaintext line that is not a comment: it is line i of the
\* pattern
PlainLineWrites(line, i) ==
    [j \in 1..Len(line) |->
        [x |-> ((columns \div 2) + j - 1) % columns,
         y |-> ((rows \div 2) + i) % rows,
         alive |-> line[j] # "."]]

RECURSIVE PlainReading(_, _, _, _)
PlainReading(lines, k, i, acc) ==
    IF k > Len(lines) THEN acc
    ELSE IF IsPlainComment(lines[k]) THEN PlainReading(lines, k + 1, i, acc)
    ELSE PlainReading(lines, k + 1, i + 1, acc \o PlainLineWrites(lines[k], i))

\* C17: ParsePlaintext returns no error; character j of the i-th line not
\* starting with '!' sets the cell at column (columns/2 + j) mod columns, row
\* (rows/2 + i) mod rows, dead for '.', alive otherwise; '!' lines write
\* nothing and do not advance the row.
C17_PlaintextPlacesCells ==
    (output.done /\ hist.op = "plaintext") =>
        /\ ~output.panic
        /\ output.err = ""
        /\ cells = Written(hist.prev, PlainReading(input, 1, 0, <<>>), 1)

\* a comment between two lines of cells, the second of them wrapping round
\* the right edge, on a grid that the decode has changed
C17_Witness ==
    /\ output.done /\ hist.op = "plaintext"
    /\ Len(input) = 3
    /\ ~IsPlainComment(input[1]) /\ input[1] # <<>>
    /\ IsPlainComment(input[2])
    /\ Len(input[3]) > columns
    /\ cells # hist.prev

-----------------------------------------------------------------------------
(* SetCellState and TranslateXY on their own *)

\* the coordinates passed are in -MaxCoord..MaxCoord
MaxCoord == 4

CellWorlds == {[rows |-> 2, columns |-> 3], [rows |-> 3, columns |-> 1]}

CellWorldCells(w, alive) ==
    [y \in 0..(w.rows - 1) |-> [x \in 0..(w.columns - 1) |->
        [Cell(x, y) EXCEPT !.alive = alive, !.aliveNext = alive,
                           !.age = IF alive THEN 1 ELSE 0]]]

InitCell ==
    /\ input \in [x : (0 - MaxCoord)..MaxCoord, y : (0 - MaxCoord)..MaxCoord,
                  alive : BOOLEAN]
    /\ \E w \in CellWorlds, alive \in BOOLEAN :
            /\ rows = w.rows
            /\ columns = w.columns
            /\ cells = CellWorldCells(w, alive)
    /\ liveCells = 0 /\ age = 0
    /\ birth = MakeMap({3}) /\ stayAlive = MakeMap({2, 3})
    /\ cfg = [Rule |-> <<"B", "3", "/", "S", "2", "3">>, HasPattern |-> FALSE,
              PatternFile |-> <<>>, Empty |-> FALSE, Pause |-> FALSE,
              Server |-> FALSE]
    /\ output = NoOutput
    /\ hist = NoHist
    /\ IdleLoop

\* g.SetCellState(x, y, alive)
CallSetCellState ==
    /\ ~output.done
    /\ LET r == SetCellState([rows |-> rows, columns |-> columns, cells |-> cells],
                             input.x, input.y, input.alive)
       IN  /\ cells' = r.g.cells
           /\ output' = [done |-> TRUE, x |-> r.x, y |-> r.y, panic |-> r.panic]
           /\ status' = IF r.panic THEN "panic" ELSE status
    /\ hist' = [op |-> "set", prev |-> cells]
    /\ UNCHANGED <<rows, columns, liveCells, age, birth, stayAlive, cfg, input>>
    /\ UNCHANGED <<running, oneStep, pause, fpsElapsed, pc, pChan, handlers>>

\* g.TranslateXY(x, y)
CallTranslateXY ==
    /\ ~output.done
    /\ LET r == TranslateXY([rows |-> rows, columns |-> columns, cells |-> cells],
                            input.x, input.y)
       IN  output' = [done |-> TRUE, x |-> r.x, y |-> r.y, panic |-> FALSE]
    /\ hist' = [op |-> "translate", prev |-> cells]
    /\ UNCHANGED <<rows, columns, cells, liveCells, age, birth, stayAlive, cfg, input>>
    /\ UNCHANGED <<running, oneStep, pause, fpsElapsed, pc, pChan, handlers, status>>

NextCell == CallSetCellState \/ CallTranslateXY

SpecCell == InitCell /\ [][NextCell]_vars

\* C18: for all integers x, y, negative ones too, SetCellState returns the
\* coordinates wrapped into the grid (congruent to x modulo columns and to y
\* modulo rows), sets alive and aliveNext of that cell to the flag, its age
\* to 0 when the flag is dead, and changes no other cell.
C18_SetCellStateWraps ==
    (output.done /\ hist.op = "set") =>
        /\ ~output.panic
        /\ output.x = input.x % columns
        /\ output.y = input.y % rows
        /\ cells[output.y][output.x].alive = input.alive
        /\ cells[output.y][output.x].aliveNext = input.alive
        /\ (~input.alive => cells[output.y][output.x].age = 0)
        /\ \A y \in 0..(rows - 1), x \in 0..(columns - 1) :
                (x # output.x \/ y # output.y) => cells[y][x] = hist.prev[y][x]

\* C19: for all integers x, y, negative ones too, TranslateXY returns
\* ((columns/2 + x) mod columns, (rows/2 + y) mod rows) with the non-negative
\* modulus: a position inside the grid, the midpoint for (0, 0).
C19_TranslateXYIsModulus ==
    (output.done /\ hist.op = "translate") =>
        /\ output.x = ((columns \div 2) + input.x) % columns
        /\ output.y = ((rows \div 2) + input.y) % rows
        /\ 0 <= output.x /\ output.x < columns
        /\ 0 <= output.y /\ output.y < rows
        /\ (input.x = 0 /\ input.y = 0) =>
                (output.x = columns \div 2 /\ output.y = rows \div 2)

\* a column at least one world width to the left of column 0 and a negative
\* row
C19_Witness ==
    /\ output.done /\ hist.op = "translate"
    /\ (columns \div 2) + input.x <= 0 - columns
    /\ (rows \div 2) + input.y < 0
    /\ columns > 1

-----------------------------------------------------------------------------
(* liveNeighbors on its own: a grid and the same grid shifted round the torus *)

\* worlds of up to MaxSide rows and columns and up to MaxCells cells
MaxSide == 3

\* the live cells have different ages
ShiftWorldCells(rws, cols, live) ==
    [y \in 0..(rws - 1) |-> [x \in 0..(cols - 1) |->
        [Cell(x, y) EXCEPT !.alive = (<<x, y>> \in live),
                           !.aliveNext = (<<x, y>> \in live),
                           !.age = IF <<x, y>> \in live THEN 1 + x + cols * y ELSE 0]]]

InitShift ==
    /\ \E rws \in 1..MaxSide, cols \in 1..MaxSide :
            /\ rws * cols <= MaxCells
            /\ rows = rws
            /\ columns = cols
            /\ \E live \in SUBSET ((0..(cols - 1)) \X (0..(rws - 1))) :
                    cells = ShiftWorldCells(rws, cols, live)
    /\ input = <<>>
    /\ liveCells = 0 /\ age = 0
    /\ birth = MakeMap({3}) /\ stayAlive = MakeMap({2, 3})
    /\ cfg = [Rule |-> <<"B", "3", "/", "S", "2", "3">>, HasPattern |-> FALSE,
              PatternFile |-> <<>>, Empty |-> FALSE, Pause |-> FALSE,
              Server |-> FALSE]
    /\ output = NoOutput
    /\ hist = NoHist
    /\ IdleLoop

\* the grid cs with its contents moved by (dx, dy) round the torus; each cell
\* keeps its own position in x, y
Shifted(cs, dx, dy) ==
    [y \in 0..(rows - 1) |-> [x \in 0..(columns - 1) |->
        [cs[(y - dy) % rows][(x - dx) % columns] EXCEPT !.x = x, !.y = y]]]

\* g.liveNeighbors(c) for every cell c of a grid
AllNeighbors(cs) ==
    [y \in 0..(rows - 1) |-> [x \in 0..(columns - 1) |-> liveNeighbors(cs, cs[y][x])]]

\* liveNeighbors of every cell, in the grid and in the grid shifted by
\* (dx, dy)
CallLiveNeighbors ==
    /\ ~output.done
    /\ \E dx \in 0..(columns - 1), dy \in 0..(rows - 1) :
            /\ output' = [done |-> TRUE, dx |-> dx, dy |-> dy,
                          here |-> AllNeighbors(cells),
                          there |-> AllNeighbors(Shifted(cells, dx, dy))]
            /\ hist' = [op |-> "neighbors", shifted |-> Shifted(cells, dx, dy)]
    /\ UNCHANGED <<rows, columns, cells, liveCells, age, birth, stayAlive, cfg, input>>
    /\ UNCHANGED <<running, oneStep, pause, fpsElapsed, pc, pChan, handlers, status>>

NextShift == CallLiveNeighbors

SpecShift == InitShift /\ [][NextShift]_vars

\* the indices that add(x, y) uses for the neighbours of the cell at (x, y)
NeighborIndices(x, y) ==
    {<<Wrap(x + NeighborOffsets[i][1], columns), Wrap(y + NeighborOffsets[i][2], rows)>> :
        i \in 1..Len(NeighborOffsets)}

\* C20: liveNeighbors of (x, y) gives the count and the average age that it
\* gives for ((x+dx) mod columns, (y+dy) mod rows) in the grid shifted by
\* (dx, dy), for the corners as for every other cell, and every index used
\* is inside the grid.
C20_NeighborsShiftInvariant ==
    (output.done /\ hist.op = "neighbors") =>
        \A y \in 0..(rows - 1), x \in 0..(columns - 1) :
            /\ output.here[y][x] =
                    output.there[(y + output.dy) % rows][(x + output.dx) % columns]
            /\ \A p \in NeighborIndices(x, y) :
                    0 <= p[1] /\ p[1] < columns /\ 0 <= p[2] /\ p[2] < rows

\* the only live cell is in the far corner, the corner (0, 0) counts it
\* across both edges, and the shifted grid has it away from the edges
C20_Witness ==
    /\ output.done /\ hist.op = "neighbors"
    /\ rows = 3 /\ columns = 3
    /\ output.dx = 2 /\ output.dy = 2
    /\ \A y \in 0..2, x \in 0..2 : cells[y][x].alive <=> (x = 2 /\ y = 2)
    /\ output.here[0][0].liveCount = 1
    /\ output.here[0][0].avgAge = 9
    /\ hist.shifted[1][1].alive

-----------------------------------------------------------------------------
(* The loop on the empty world *)

AllDead(cs) ==
    \A y \in DOMAIN cs : \A x \in DOMAIN cs[y] :
        ~cs[y][x].alive /\ ~cs[y][x].aliveNext /\ cs[y][x].age = 0

\* C21: from the all-dead grid of -empty under B3/S23, as long as no pattern
\* has been received from the queue, every tick (and every reset) leaves
\* every cell dead with age 0, the live count 0 and the generation counter
\* where it was, at 0.
C21_EmptyWorldStaysEmpty ==
    hist.recv = <<>> =>
        /\ AllDead(cells)
        /\ liveCells = 0
        /\ age = 0

\* all the ticks have run on the empty world while a pattern waits in the
\* queue, not yet received
C21_Witness ==
    /\ hist.ticks = MaxLoopTicks
    /\ hist.recv = <<>>
    /\ Len(pChan) > 0
    /\ status = "run"

-----------------------------------------------------------------------------
(* The colour gradients.  A colour is [r, g, b, a], a table of points is a  *)
(* function from 0..(maxAge - 1).  float64 arithmetic is followed exactly   *)
(* where it is exact; where it is not, fl holds what the build gives:       *)
(* fl.nan is the byte that the conversion uint8(NaN) yields, and fl.low the *)
(* indices t at which a product that is a whole number in exact arithmetic  *)
(* comes out just below it.                                                 *)

RGBAColor(r, g, b, a) == [r |-> r, g |-> g, b |-> b, a |-> a]

\* make([]RGBAColor, maxAge): zero values
MakePoints(maxAge) == [t \in 0..(maxAge - 1) |-> RGBAColor(0, 0, 0, 0)]

\* Gradient{}
NoGradient == [controls |-> <<>>, points |-> <<>>]

IsPow2(n) == \E k \in 0..16 : n = 2 ^ k

\* uint8(x) for the float64 x = num/den >= 0 computed at index t of maxAge:
\* truncation; t/(maxAge-1) is exact when maxAge-1 is a power of two
Uint8Of(num, den, t, maxAge, fl) ==
    IF num % den = 0 /\ num > 0 /\ 0 < t /\ t < maxAge - 1
       /\ ~IsPow2(maxAge - 1) /\ t \in fl.low
    THEN ((num \div den) - 1) % 256
    ELSE (num \div den) % 256

\* uint8(float64(s) + (float64(t)/float64(maxAge-1))*(float64(e)-float64(s)));
\* with maxAge = 1 the quotient is 0/0, NaN
LinearChannel(s, e, t, maxAge, fl) ==
    IF maxAge = 1 THEN fl.nan
    ELSE IF e = s THEN s
    ELSE Uint8Of(s * (maxAge - 1) + t * (e - s), maxAge - 1, t, maxAge, fl)

ErrLinear == "Linear Gradient requires at least 1 color"
ErrPolylinear == "Polylinear Gradient requires at least 2 colors"

\* the slip that would take the second colour as the end of the gradient
NewLinearGradientMutSecond(colors, maxAge, fl) ==
    IF Len(colors) < 1 THEN [err |-> ErrLinear, g |-> NoGradient]
    ELSE LET start == colors[1]
             end   == colors[IF Len(colors) > 1 THEN 2 ELSE 1]
         IN  [err |-> "",
              g |-> [controls |-> <<start, end>>,
                     points |-> [t \in 0..(maxAge - 1) |->
                        RGBAColor(LinearChannel(start.r, end.r, t, maxAge, fl),
                                  LinearChannel(start.g, end.g, t, maxAge, fl),
                                  LinearChannel(start.b, end.b, t, maxAge, fl),
                                  255)]]]

NewLinearGradient(colors, maxAge, fl) ==
    IF Len(colors) < 1 THEN [err |-> ErrLinear, g |-> NoGradient]
    ELSE LET start == colors[1]
             end   == colors[Len(colors)]
         IN  [err |-> "",
              g |-> [controls |-> <<start, end>>,
                     points |-> [t \in 0..(maxAge - 1) |->
                        RGBAColor(LinearChannel(start.r, end.r, t, maxAge, fl),
                                  LinearChannel(start.g, end.g, t, maxAge, fl),
                                  LinearChannel(start.b, end.b, t, maxAge, fl),
                                  255)]]]

\* the length of a table of points
NumPoints(pts) == Cardinality(DOMAIN pts)

\* a slip that would start every copy at the head of the table
GradientAppendMutHead(st, from, start) ==
    [st EXCEPT !.points = [t \in DOMAIN st.points |->
                              IF t < NumPoints(from.points)
                              THEN from.points[t] ELSE st.points[t]],
               !.writes = @ \o [k \in 1..NumPoints(from.points) |-> k - 1]]

\* Gradient.Append on st = [points, writes, panic]: writes lists the indices
\* assigned; an index outside the table is a run-time panic
GradientAppend(st, from, start) ==
    IF \E i \in DOMAIN from.points : start + i \notin DOMAIN st.points
    THEN [st EXCEPT !.panic = TRUE]
    ELSE [st EXCEPT !.points = [t \in DOMAIN st.points |->
                                  IF start <= t /\ t < start + NumPoints(from.points)
                                  THEN from.points[t - start] ELSE st.points[t]],
                    !.writes = @ \o [k \in 1..NumPoints(from.points) |-> start + k - 1]]

\* the loop `for i := 1; i < len(colors)-1; i++` of NewPolylinearGradient;
\* colors[i:i+1] is the one colour colors[i] (index i + 1 here)
RECURSIVE PolylinearSegments(_, _, _, _, _, _)
PolylinearSegments(st, colors, maxAge, n, i, fl) ==
    IF st.panic \/ ~(i < Len(colors) - 1) THEN st
    ELSE LET len == IF i = Len(colors) - 2 THEN n + (maxAge - ((i + 1) * n)) ELSE n
             seg == NewLinearGradient(<<colors[i + 1]>>, len, fl).g
         IN  PolylinearSegments(GradientAppend(st, seg, i * n), colors, maxAge, n,
                                i + 1, fl)

\* the result is [err, g, writes, panic]
NewPolylinearGradient(colors, maxAge, fl) ==
    IF Len(colors) < 2
    THEN [err |-> ErrPolylinear, g |-> NoGradient, writes |-> <<>>, panic |-> FALSE]
    ELSE LET n     == maxAge \div (Len(colors) - 1)
             first == GradientAppend([points |-> MakePoints(maxAge), writes |-> <<>>,
                                      panic |-> FALSE],
                                     NewLinearGradient(colors, n, fl).g, 0)
             st    == IF Len(colors) = 2 THEN first
                      ELSE PolylinearSegments(first, colors, maxAge, n, 1, fl)
         IN  [err |-> "", g |-> [controls |-> colors, points |-> st.points],
              writes |-> st.writes, panic |-> st.panic]

\* A float64 that holds a whole number too large for the model's integers
\* is a list of limbs, least significant first, in base LimbBase.
LimbBase == 10 ^ 4

LimbOne == <<1>>

\* a * k for a small k, carry c
RECURSIVE MulSmall(_, _, _)
MulSmall(a, k, c) ==
    IF a = <<>> THEN IF c = 0 THEN <<>> ELSE <<c>>
    ELSE <<(a[1] * k + c) % LimbBase>> \o MulSmall(Tail(a), k, (a[1] * k + c) \div LimbBase)

RECURSIVE FactOf(_, _)

\* fc.cache[n] = result; return result
FactStore(cache, n, result) == [cache |-> cache @@ (n :> result), v |-> result]

\* a slip that would keep the product under the key n - 1 as well
FactStepMutBelow(r, n) ==
    [cache |-> (n :> MulSmall(r.v, n, 0)) @@ ((n - 1) :> MulSmall(r.v, n, 0)) @@ r.cache,
     v |-> MulSmall(r.v, n, 0)]

\* result = float64(n) * fc.Fact(n-1), r being what fc.Fact(n-1) has given;
\* the product is exact for n <= 19: n! has fewer than 53 bits between its
\* highest and its lowest non-zero bit
FactStep(r, n) == FactStore(r.cache, n, MulSmall(r.v, n, 0))

\* fc.Fact(n) on the cache given: [cache, v], the cache afterwards and the
\* value returned
FactOf(cache, n) ==
    IF n \in DOMAIN cache THEN [cache |-> cache, v |-> cache[n]]
    ELSE IF n = 1 \/ n = 0 THEN FactStore(cache, n, LimbOne)
    ELSE FactStep(FactOf(cache, n - 1), n)

\* NewFactorialCache()
NewFactorialCache == <<>>

\* a small float64 as a number of the model
RECURSIVE LimbsToInt(_)
LimbsToInt(a) == IF a = <<>> THEN 0 ELSE a[1] + LimbBase * LimbsToInt(Tail(a))

\* math.Pow(x, y) for whole y >= 0: 1 when y = 0, whatever x is
Pow(x, y) == IF y = 0 THEN 1 ELSE x ^ y

\* fc.Fact(n) / (fc.Fact(i) * fc.Fact(n-i)); the cache changes no value
Binomial(n, i) ==
    LimbsToInt(FactOf(NewFactorialCache, n).v) \div
        (LimbsToInt(FactOf(NewFactorialCache, i).v) *
         LimbsToInt(FactOf(NewFactorialCache, n - i).v))

\* uint8(fc.Bernstein(float64(t)/float64(maxAge-1), n, i) * float64(c)); with
\* one control (n = 0) both powers are 0th powers and the coefficient is 1;
\* with maxAge = 1 the position is NaN, and so is every power of it but the
\* 0th
BezierTerm(c, t, maxAge, n, i, fl) ==
    IF n = 0 THEN c
    ELSE IF maxAge = 1 THEN fl.nan
    ELSE Uint8Of(Binomial(n, i) * Pow(maxAge - 1 - t, n - i) * Pow(t, i) * c,
                 Pow(maxAge - 1, n), t, maxAge, fl)

\* color.r += ... for each control: uint8 addition wraps
RECURSIVE BezierChannel(_, _, _, _, _, _)
BezierChannel(cs, t, maxAge, i, acc, fl) ==
    IF i > Len(cs) THEN acc
    ELSE BezierChannel(cs, t, maxAge, i + 1,
                       (acc + BezierTerm(cs[i], t, maxAge, Len(cs) - 1, i - 1, fl)) % 256,
                       fl)

Channel(controls, ch) == [i \in 1..Len(controls) |-> controls[i][ch]]

NewBezierGradient(controls, maxAge, fl) ==
    [controls |-> controls,
     points |-> [t \in 0..(maxAge - 1) |->
        RGBAColor(BezierChannel(Channel(controls, "r"), t, maxAge, 1, 0, fl),
                  BezierChannel(Channel(controls, "g"), t, maxAge, 1, 0, fl),
                  BezierChannel(Channel(controls, "b"), t, maxAge, 1, 0, fl),
                  255)]]

-----------------------------------------------------------------------------
(* The three gradient builders on their own *)

\* up to MaxColors control colours, tables of up to MaxAge points
MaxColors == 3

MaxAge == 5

Black == RGBAColor(0, 0, 0, 255)
White == RGBAColor(255, 255, 255, 255)
Amber == RGBAColor(170, 85, 0, 255)

Palette == {Black, White, Amber}

\* what uint8(NaN) gives is left to the implementation
NaNBytes == {0, 255}

\* the indices at which t/(maxAge-1) is not exact
InexactAt(maxAge) == IF IsPow2(maxAge - 1) THEN {} ELSE 1..(maxAge - 2)

InitGradient ==
    /\ \E colors \in Strings(Palette, MaxColors), maxAge \in 1..MaxAge,
          nan \in NaNBytes :
          \E low \in SUBSET InexactAt(maxAge) :
            input = [colors |-> colors, maxAge |-> maxAge,
                     fl |-> [nan |-> nan, low |-> low]]
    /\ IdleGame
    /\ IdleLoop
    /\ output = NoOutput
    /\ hist = NoHist

\* the gradients of `switch cfg.Gradient`
GradientOps == {"linear", "polylinear", "bezier"}

\* the builder for the gradient chosen: [err, g, writes, panic];
\* NewBezierGradient returns a Gradient and no error
BuildGradient(op, colors, maxAge, fl) ==
    IF op = "linear"
    THEN [writes |-> <<>>, panic |-> FALSE] @@ NewLinearGradient(colors, maxAge, fl)
    ELSE IF op = "polylinear" THEN NewPolylinearGradient(colors, maxAge, fl)
    ELSE [err |-> "", writes |-> <<>>, panic |-> FALSE,
          g |-> NewBezierGradient(colors, maxAge, fl)]

\* one call of a builder
CallGradient(op) ==
    /\ ~output.done
    /\ LET r == BuildGradient(op, input.colors, input.maxAge, input.fl)
       IN  /\ output' = [done |-> TRUE, err |-> r.err, g |-> r.g, writes |-> r.writes,
                         panic |-> r.panic, colors |-> input.colors]
           /\ status' = IF r.panic THEN "panic" ELSE status
    /\ hist' = [op |-> op]
    /\ UNCHANGED input
    /\ UNCHANGED gameVars
    /\ UNCHANGED <<running, oneStep, pause, fpsElapsed, pc, pChan, handlers>>

NextGradient == \E op \in GradientOps : CallGradient(op)

SpecGradient == InitGradient /\ [][NextGradient]_vars

\* the call of a builder that has returned a table
Built(op) == output.done /\ hist.op = op /\ output.err = "" /\ ~output.panic

\* floor(maxAge / (k - 1))
SegmentLen == input.maxAge \div (Len(input.colors) - 1)

\* the last index of segment s (from 0) of the polylinear table
SegmentEnd(s) ==
    IF s = Len(input.colors) - 2 THEN input.maxAge - 1 ELSE (s + 1) * SegmentLen - 1

\* C22: in the polylinear table for k >= 2 colours, segment s starts with
\* c[s] and ends with c[s+1]; the table ends with the last control colour.
\* (A segment needs two entries for both ends.)
C22_SegmentsJoinControls ==
    (Built("polylinear") /\ Len(input.colors) >= 2 /\ SegmentLen >= 2) =>
        /\ \A s \in 0..(Len(input.colors) - 2) :
                /\ output.g.points[s * SegmentLen] = input.colors[s + 1]
                /\ output.g.points[SegmentEnd(s)] = input.colors[s + 2]
        /\ output.g.points[input.maxAge - 1] = input.colors[Len(input.colors)]

\* C23: the polylinear table and the Bezier table have maxAge entries, and
\* the polylinear construction assigns each index of 0..maxAge-1 once and
\* no index outside.
C23_TablesHaveMaxAgeEntries ==
    /\ (output.done /\ hist.op = "polylinear" /\ Len(input.colors) >= 2) =>
            /\ ~output.panic /\ output.err = ""
            /\ DOMAIN output.g.points = 0..(input.maxAge - 1)
            /\ Len(output.writes) = input.maxAge
            /\ {output.writes[k] : k \in 1..Len(output.writes)} = 0..(input.maxAge - 1)
    /\ (output.done /\ hist.op = "bezier" /\ Len(input.colors) >= 2) =>
            DOMAIN output.g.points = 0..(input.maxAge - 1)

\* three colours and a table that the segment length does not divide: the
\* last segment takes the remainder
C23_Witness ==
    /\ Built("polylinear")
    /\ Len(input.colors) = 3
    /\ input.maxAge > 2 * SegmentLen
    /\ SegmentLen >= 1

Channels == {"r", "g", "b"}

\* C24: the linear table for maxAge >= 2 has maxAge entries, starts with the
\* first colour and ends with the last, has alpha 255 throughout, is
\* monotonic in each channel, and is the table of the first and last colour
\* alone.
C24_LinearEndsAndMonotonic ==
    (output.done /\ hist.op = "linear" /\ Len(input.colors) >= 1 /\ input.maxAge >= 2) =>
        LET first == input.colors[1]
            last  == input.colors[Len(input.colors)]
            pts   == output.g.points
        IN  /\ output.err = ""
            /\ DOMAIN pts = 0..(input.maxAge - 1)
            /\ pts[0] = first
            /\ pts[input.maxAge - 1] = last
            /\ \A t \in DOMAIN pts : pts[t].a = 255
            /\ \A ch \in Channels : \A t \in 1..(input.maxAge - 1) :
                    IF last[ch] >= first[ch] THEN pts[t][ch] >= pts[t - 1][ch]
                    ELSE pts[t][ch] <= pts[t - 1][ch]
            /\ pts = NewLinearGradient(<<first, last>>, input.maxAge, input.fl).g.points

\* three colours, the middle one unlike both ends, every channel going down
C24_Witness ==
    /\ Built("linear")
    /\ input.colors = <<White, Amber, Black>>
    /\ input.maxAge = 4
    /\ input.fl.low = {}
    /\ output.g.points[1].r = 170
    /\ output.g.points[2].r = 85

\* C25: each builder fails with an error and returns no usable gradient
\* below its minimum of colours (linear: 0; polylinear: fewer than 2;
\* Bezier: 0), and none changes the colours passed in.
C25_TooFewColorsIsError ==
    output.done =>
        /\ (hist.op = "linear" /\ Len(input.colors) = 0) =>
                (output.err # "" /\ output.g = NoGradient)
        /\ (hist.op = "polylinear" /\ Len(input.colors) < 2) =>
                (output.err # "" /\ output.g = NoGradient)
        /\ (hist.op = "bezier" /\ Len(input.colors) = 0) =>
                (output.err # "" /\ output.g = NoGradient)
        /\ output.colors = input.colors

\* C(n, i) by Pascal's rule
RECURSIVE Choose(_, _)
Choose(n, i) ==
    IF i = 0 \/ i = n THEN 1 ELSE Choose(n - 1, i - 1) + Choose(n - 1, i)

\* the sum over i of C(n,i) (1-u)^(n-i) u^i c[i], times (maxAge-1)^n
RECURSIVE WeightedSum(_, _, _, _)
WeightedSum(cs, t, m, i) ==
    IF i > Len(cs) THEN 0
    ELSE Choose(Len(cs) - 1, i - 1) * Pow(m - 1 - t, Len(cs) - i) * Pow(t, i - 1) * cs[i]
         + WeightedSum(cs, t, m, i + 1)

-----------------------------------------------------------------------------
(* One FactorialCache and a sequence of calls of Fact *)

\* the largest argument, and the number of calls in one behaviour
MaxFactArg == 19

MaxCalls == 3

InitFact ==
    /\ output = [done |-> FALSE, cache |-> NewFactorialCache, n |-> 0, v |-> <<>>]
    /\ hist = [op |-> "init", calls |-> 0, prev |-> NewFactorialCache]
    /\ input = <<>>
    /\ IdleGame
    /\ IdleLoop

\* fc.Fact(n)
CallFact(n) ==
    /\ hist.calls < MaxCalls
    /\ LET r == FactOf(output.cache, n)
       IN  output' = [done |-> TRUE, cache |-> r.cache, n |-> n, v |-> r.v]
    /\ hist' = [op |-> "fact", calls |-> hist.calls + 1, prev |-> output.cache]
    /\ UNCHANGED input
    /\ UNCHANGED gameVars
    /\ UNCHANGED loopVars

NextFact == \E n \in 0..MaxFactArg : CallFact(n)

SpecFact == InitFact /\ [][NextFact]_vars

\* 0!, 1!, ..., 19! in limbs
Factorials ==
    << <<1>>,
       <<1>>,
       <<2>>,
       <<6>>,
       <<24>>,
       <<120>>,
       <<720>>,
       <<5040>>,
       <<320, 4>>,
       <<2880, 36>>,
       <<8800, 362>>,
       <<6800, 3991>>,
       <<1600, 7900, 4>>,
       <<800, 2702, 62>>,
       <<1200, 7829, 871>>,
       <<8000, 7436, 3076, 1>>,
       <<8000, 8988, 9227, 20>>,
       <<6000, 2809, 6874, 355>>,
       <<8000, 572, 3737, 6402>>,
       <<2000, 883, 1004, 1645, 12>> >>

\* C27: every call of Fact with an argument in 0..19 returns n!, every entry
\* k of the cache is k!, and no call changes an entry that was there.
C27_FactIsFactorial ==
    output.done =>
        /\ output.v = Factorials[output.n + 1]
        /\ \A k \in DOMAIN output.cache : output.cache[k] = Factorials[k + 1]
        /\ \A k \in DOMAIN hist.prev :
                k \in DOMAIN output.cache /\ output.cache[k] = hist.prev[k]

\* 19! asked for with 0! and 18! and what lies between already in the cache
C27_Witness ==
    /\ output.done /\ hist.calls = MaxCalls
    /\ output.n = MaxFactArg
    /\ {0, MaxFactArg - 1} \subseteq DOMAIN hist.prev
    /\ output.v = <<2000, 883, 1004, 1645, 12>>

-----------------------------------------------------------------------------
(* ParseColorTriplets *)

\* strings.ReplaceAll(s, old, new), from the left, without overlap
RECURSIVE ReplaceAll(_, _, _)
ReplaceAll(s, old, new) ==
    IF s = <<>> THEN <<>>
    ELSE IF HasPrefix(s, old)
    THEN new \o ReplaceAll(SubSeq(s, Len(old) + 1, Len(s)), old, new)
    ELSE <<s[1]>> \o ReplaceAll(Tail(s), old, new)

HexChars ==
    << {"0"}, {"1"}, {"2"}, {"3"}, {"4"}, {"5"}, {"6"}, {"7"}, {"8"}, {"9"},
       {"a", "A"}, {"b", "B"}, {"c", "C"}, {"d", "D"}, {"e", "E"}, {"f", "F"} >>

IsHex(c) == \E i \in 1..Len(HexChars) : c \in HexChars[i]

HexVal(c) == (CHOOSE i \in 1..Len(HexChars) : c \in HexChars[i]) - 1

\* strconv.ParseUint(c[from:from+2], 16, 8) on the token c (from counted
\* from 0); the slice panics when the token is shorter than from + 2
ParseHexByte(c, from) ==
    IF Len(c) < from + 2 THEN [panic |-> TRUE, err |-> FALSE, v |-> 0]
    ELSE IF ~IsHex(c[from + 1]) \/ ~IsHex(c[from + 2])
    THEN [panic |-> FALSE, err |-> TRUE, v |-> 0]
    ELSE [panic |-> FALSE, err |-> FALSE,
          v |-> 16 * HexVal(c[from + 1]) + HexVal(c[from + 2])]

\* a slip that would read the green byte again for the blue one
TripletBlueMutGreen(c) == ParseHexByte(c, 2)

\* b, err := strconv.ParseUint(c[4:6], 16, 8)
TripletBlue(c) == ParseHexByte(c, 4)

\* the body of the loop for the token c, the colours so far being colors
TripletStep(colors, c, r, g, b) ==
    IF r.panic \/ r.err
    THEN [colors |-> colors, err |-> r.err, panic |-> r.panic]
    ELSE IF g.panic \/ g.err
    THEN [colors |-> colors, err |-> g.err, panic |-> g.panic]
    ELSE IF b.panic \/ b.err
    THEN [colors |-> colors, err |-> b.err, panic |-> b.panic]
    ELSE [colors |-> Append(colors, RGBAColor(r.v, g.v, b.v, 255)),
          err |-> FALSE, panic |-> FALSE]

RECURSIVE TripletLoop(_, _, _)
TripletLoop(st, tokens, i) ==
    IF i > Len(tokens) \/ st.err \/ st.panic THEN st
    ELSE TripletLoop(TripletStep(st.colors, tokens[i], ParseHexByte(tokens[i], 0),
                                 ParseHexByte(tokens[i], 2), TripletBlue(tokens[i])),
                     tokens, i + 1)

\* the result is [colors, err, panic]
ParseColorTriplets(s) ==
    TripletLoop([colors |-> <<>>, err |-> FALSE, panic |-> FALSE],
                Split(ReplaceAll(ReplaceAll(TrimPrefix(s, <<"#">>), <<",", "#">>, <<",">>),
                                 <<"#">>, <<",">>),
                      ","),
                1)

\* inputs of up to MaxTokens tokens
MaxTokens == 2

\* tokens of six and of eight characters, with capitals, with a character
\* that is no hex digit in the first, the fourth and the sixth place or
\* after the sixth, and a token that is too short
ColorTokens ==
    { <<"a", "a", "5", "5", "a", "a", "5", "5">>,
      <<"0", "0", "0", "0", "0", "0">>,
      <<"8", "0", "F", "f", "0", "A", "z", "z">>,
      <<"n", "o", "t", "h", "e", "x">>,
      <<"a", "a", "5", "z", "0", "0">>,
      <<"0", "0", "0", "0", "0", "z">>,
      <<"a", "b", "c">> }

ColorSeparators == { <<",">>, <<"#">>, <<",", "#">> }

ColorLeads == { <<>>, <<"#">> }

\* lead, token, separator, token, ...
RECURSIVE JoinTokens(_, _, _)
JoinTokens(tokens, seps, i) ==
    IF i > Len(tokens) THEN <<>>
    ELSE (IF i > 1 THEN seps[i - 1] ELSE <<>>) \o tokens[i]
         \o JoinTokens(tokens, seps, i + 1)

InitColor ==
    /\ \E k \in 1..MaxTokens :
        \E tokens \in [1..k -> ColorTokens], seps \in [1..(k - 1) -> ColorSeparators],
           lead \in ColorLeads :
            /\ input = lead \o JoinTokens(tokens, seps, 1)
            /\ hist = [op |-> "init", tokens |-> tokens]
    /\ output = NoOutput
    /\ IdleGame
    /\ IdleLoop

\* ParseColorTriplets(cfg.Colors)
CallParseColorTriplets ==
    /\ ~output.done
    /\ LET r == ParseColorTriplets(input)
       IN  /\ output' = [done |-> TRUE, colors |-> r.colors, err |-> r.err,
                         panic |-> r.panic]
           /\ status' = IF r.panic THEN "panic" ELSE status
    /\ hist' = [hist EXCEPT !.op = "colors"]
    /\ UNCHANGED input
    /\ UNCHANGED gameVars
    /\ UNCHANGED <<running, oneStep, pause, fpsElapsed, pc, pChan, handlers>>

NextColor == CallParseColorTriplets

SpecColor == InitColor /\ [][NextColor]_vars

\* the value of the hex byte at places p and p + 1 of a token
ByteAt(tok, p) ==
    16 * ((CHOOSE v \in 0..15 : tok[p] \in HexChars[v + 1])) +
        (CHOOSE v \in 0..15 : tok[p + 1] \in HexChars[v + 1])

SixHex(tok) == \A p \in 1..6 : IsHex(tok[p])

\* C28: for an input of tokens of at least six characters, joined by ',',
\* '#' or ',#' after an optional '#': if the first six characters of every
\* token are hex digits, the result is one colour per token, in order, with
\* r, g, b the three hex bytes and a = 255; otherwise the result is an
\* error.
C28_ColorTriplets ==
    (output.done /\ \A i \in 1..Len(hist.tokens) : Len(hist.tokens[i]) >= 6) =>
        /\ ~output.panic
        /\ IF \A i \in 1..Len(hist.tokens) : SixHex(hist.tokens[i])
           THEN /\ ~output.err
                /\ output.colors =
                        [i \in 1..Len(hist.tokens) |->
                            RGBAColor(ByteAt(hist.tokens[i], 1), ByteAt(hist.tokens[i], 3),
                                      ByteAt(hist.tokens[i], 5), 255)]
           ELSE output.err

\* "#aa55aa55,#80Ff0Azz" gives (170, 85, 170, 255) and (128, 255, 10, 255)
C28_Witness ==
    /\ output.done /\ ~output.err
    /\ input[1] = "#"
    /\ Len(hist.tokens) = 2
    /\ Contains(input, <<",", "#">>)
    /\ output.colors = <<RGBAColor(170, 85, 170, 255), RGBAColor(128, 255, 10, 255)>>

-----------------------------------------------------------------------------
(* The choice of the decoder: a pattern file at startup, a pattern from the *)
(* queue                                                                     *)

MaxSniffLines == 3

\* the two magic lines, a position, lines of cells for each format, an RLE
\* header and an RLE body
SniffLineSet ==
    { Life105Magic, Life106Magic, PosLine(0, 0), <<"*", ".">>, <<"O", ".">>,
      <<"x", "=", "1", ",", "y", "=", "1">>, <<"o", "!">> }

InitSniff ==
    /\ input \in Strings(SniffLineSet, MaxSniffLines) \ {<<>>}
    /\ rows = LifeWorld.rows
    /\ columns = LifeWorld.columns
    /\ cells = LifeWorldCells(FALSE)
    /\ liveCells = 0 /\ age = 0
    /\ birth = MakeMap({3}) /\ stayAlive = MakeMap({2, 3})
    /\ cfg = [Rule |-> <<"B", "3", "/", "S", "2", "3">>, HasPattern |-> TRUE,
              PatternFile |-> input, Empty |-> FALSE, Pause |-> FALSE,
              Server |-> TRUE]
    /\ output = NoOutput
    /\ hist = NoHist
    /\ IdleLoop

\* the same lines as the pattern file of InitializeCells and as a pattern
\* received by Run, each on the grid as it was
CallBothPaths ==
    /\ ~output.done
    /\ output' = [done |-> TRUE,
                  startup |-> LoadPatternFile([rows |-> rows, columns |-> columns,
                                               cells |-> cells], cfg.Rule, input),
                  intake |-> IntakeDecode([rows |-> rows, columns |-> columns,
                                           cells |-> cells], cfg.Rule, input)]
    /\ hist' = [op |-> "paths"]
    /\ UNCHANGED input
    /\ UNCHANGED gameVars
    /\ UNCHANGED loopVars

NextSniff == CallBothPaths

SpecSniff == InitSniff /\ [][NextSniff]_vars

\* the decode that the sniffing rule of the format description selects
SniffedDecode(g, rule, lines) ==
    IF HasPrefix(lines[1], Life105Magic) THEN ParseLife105(g, rule, lines)
    ELSE IF \E i \in 1..Len(lines) : RleMatches(lines[i])
    THEN ParseRLE(g, rule, lines, 0, 0)
    ELSE ParsePlaintext(g, rule, lines)

\* C29: for a non-empty pattern the startup path and the intake path pick
\* the same decoder and end alike: Life 1.05 for a first line starting with
\* "#Life 1.05", else RLE if a line matches the header regex, else plaintext.
C29_SamePathsSameDecoder ==
    (output.done /\ hist.op = "paths") =>
        /\ output.startup = output.intake
        /\ output.intake = SniffedDecode([rows |-> rows, columns |-> columns,
                                          cells |-> cells], cfg.Rule, input)

-----------------------------------------------------------------------------
(* InitializeCells for worlds of every shape, and what follows it *)

\* a plaintext pattern wider than the widest world, a Life 1.05 pattern, an
\* RLE pattern
ShapePatterns ==
    { << <<"O", ".", "O", "O", "O">>, <<"O">> >>,
      << Life105Magic, PosLine(-1, 1), <<"*", "*">> >>,
      << <<"x", "=", "2", ",", "y", "=", "2">>, <<"o", "$", "b", "o", "!">> >> }

InitShape ==
    /\ rows \in 1..MaxSide
    /\ columns \in 1..MaxSide
    /\ rows * columns <= MaxCells
    /\ cells = NoGame.cells
    /\ birth = NoGame.birth /\ stayAlive = NoGame.stayAlive
    /\ \E empty \in BOOLEAN :
        cfg = [Rule |-> <<"B", "3", "/", "S", "2", "3">>, HasPattern |-> FALSE,
               PatternFile |-> <<>>, Empty |-> empty, Pause |-> FALSE,
               Server |-> TRUE]
    /\ liveCells = 0 /\ age = 0
    /\ input = <<>> /\ output = NoOutput
    /\ hist = [op |-> "init", ticks |-> 0]
    /\ IdleLoop

\* g.InitializeCells() of NewLifeGame
CallInitializeCells ==
    /\ hist.op = "init" /\ status = "run"
    /\ \E rnd \in SUBSET Coords(rows, columns) :
        /\ cfg.Empty => rnd = {}
        /\ LET i == InitializeCells(rows, columns, cfg, NoGame, rnd)
           IN  /\ cells' = i.cells
               /\ birth' = i.birth
               /\ stayAlive' = i.stayAlive
               /\ cfg' = [cfg EXCEPT !.Rule = i.rule]
               /\ status' = i.status
    /\ age' = 0
    /\ hist' = [hist EXCEPT !.op = "cells"]
    /\ UNCHANGED <<rows, columns, liveCells, input, output>>
    /\ UNCHANGED <<running, oneStep, pause, fpsElapsed, pc, pChan, handlers>>

\* g.NextFrame() on the world made
TickShape ==
    /\ hist.op # "init" /\ status = "run"
    /\ hist.ticks < MaxTicks
    /\ LET n == NextFrame(cells, birth, stayAlive, liveCells, age)
       IN  /\ cells' = n.cells
           /\ liveCells' = n.liveCells
           /\ age' = n.age
    /\ hist' = [op |-> "tick", ticks |-> hist.ticks + 1]
    /\ UNCHANGED <<rows, columns, birth, stayAlive, cfg, input, output>>
    /\ UNCHANGED loopVars

\* a pattern from the queue decoded onto the world made
DecodeShape(pattern) ==
    /\ hist.op # "init" /\ status = "run"
    /\ ~output.done
    /\ LET d == IntakeDecode([rows |-> rows, columns |-> columns, cells |-> cells],
                             cfg.Rule, pattern)
       IN  /\ cells' = d.g.cells
           /\ cfg' = [cfg EXCEPT !.Rule = d.rule]
           /\ status' = IF d.panic THEN "panic" ELSE status
           /\ output' = [done |-> TRUE]
    /\ hist' = [hist EXCEPT !.op = "decode"]
    /\ UNCHANGED <<rows, columns, liveCells, age, birth, stayAlive, input>>
    /\ UNCHANGED <<running, oneStep, pause, fpsElapsed, pc, pChan, handlers>>

NextShape ==
    \/ CallInitializeCells
    \/ TickShape
    \/ \E pattern \in ShapePatterns : DecodeShape(pattern)

SpecShape == InitShape /\ [][NextShape]_vars

\* rows rows of columns cells, the cell at [y][x] carrying (x, y)
HasShape(cs) ==
    /\ DOMAIN cs = 0..(rows - 1)
    /\ \A y \in DOMAIN cs :
        /\ DOMAIN cs[y] = 0..(columns - 1)
        /\ \A x \in DOMAIN cs[y] : cs[y][x].x = x /\ cs[y][x].y = y

\* C30: for all rows, columns >= 1 InitializeCells completes with a grid of
\* rows rows of columns cells, each with its coordinates, all dead with age
\* 0 before any fill; decodes and ticks keep the shape and the coordinates.
C30_GridShape ==
    hist.op # "init" =>
        /\ status = "run"
        /\ HasShape(cells)
        /\ (hist.op = "cells" /\ cfg.Empty) => AllDead(cells)

-----------------------------------------------------------------------------
(* The loop: the generation counter *)

\* the cells of cs with aliveNext set
LiveNext(cs) ==
    {c \in Coords(LenRows(cs), LenCols(cs, 0)) : cs[c[2]][c[1]].aliveNext}

\* the step is `case sdl.K_r`
IsReset ==
    /\ pc = "events" /\ pc' = "events"
    /\ UNCHANGED <<running, oneStep, pause, pChan, hist>>

\* C31: a tick advances the generation counter by exactly 1 if the live
\* count it computes differs from the count recorded by the tick before it,
\* and leaves it otherwise; the change it reports, g.liveCells - last, is
\* the difference of those two counts; the counter decreases only in a
\* reset, and no step other than a tick or a reset changes it.
C31_GenerationCounter ==
    [][/\ hist'.ticks > hist.ticks =>
            /\ liveCells' = Cardinality(LiveNext(cells'))
            /\ age' = IF liveCells' - liveCells # 0 THEN age + 1 ELSE age
       /\ hist'.ticks = hist.ticks =>
            /\ liveCells' = liveCells
            /\ age' # age => (age' = 0 /\ IsReset)]_vars

\* two ticks have run since the last reset, one that changed the live count
\* and one that did not
C31_Witness ==
    /\ hist.ticks = MaxLoopTicks
    /\ age = 1
    /\ liveCells > 0
    /\ Len(hist.recv) = 1

-----------------------------------------------------------------------------
(* The loop under fair scheduling *)

\* the loop started with and without -server
InitFair ==
    /\ rows = LoopWorld.rows
    /\ columns = LoopWorld.columns
    /\ \E server \in BOOLEAN :
        LET c == [LoopCfg EXCEPT !.Server = server]
            i == InitializeCells(rows, columns, c, NoGame, {})
        IN  /\ cells = i.cells
            /\ birth = i.birth
            /\ stayAlive = i.stayAlive
            /\ cfg = [c EXCEPT !.Rule = i.rule]
            /\ status = i.status
    /\ liveCells = 0 /\ age = 0
    /\ running = TRUE /\ oneStep = FALSE /\ pause = LoopCfg.Pause
    /\ fpsElapsed = 0 /\ pc = "events"
    /\ pChan = <<>> /\ handlers = NoHandlers
    /\ input = <<>> /\ output = NoOutput
    /\ hist = [sent |-> <<>>, recv |-> <<>>, ticks |-> 0, recvSinceTick |-> 0]

\* the keys and the request bodies of the fair loop: a plaintext pattern and
\* the pattern with an empty line before its RLE header
FairKeys == {"quit", "space", "s"}

FairPatterns ==
    { <<<<"O">>>>,
      << <<>>, <<"x", " ", "=", " ", "1", ",", " ", "y", " ", "=", " ", "1">>,
         <<"o", "!">> >> }

NextFair ==
    \/ \E key \in FairKeys : PollEvent(key)
    \/ Frame
    \/ Receive
    \/ ReceiveDefault
    \/ \E body \in FairPatterns : Request("POST", body)
    \/ \E pattern \in FairPatterns : Send(pattern)

\* the steps of Frame and of Receive, by their guards and by what they do to
\* pc: the loop has no other step that takes pc from "events" to "recv", and
\* none but ReceiveDefault that takes it on from "recv"
FrameStep == status = "run" /\ pc = "events" /\ pc' = "recv"

ReceiveStep ==
    /\ status = "run" /\ pc = "recv"
    /\ cfg.Server /\ Len(pChan) > 0
    /\ pc' \in {LoopTop, "done"}

\* the goroutine of Run is scheduled: the event queue runs empty and the
\* sleep returns, and the select is evaluated; a handler whose send can
\* complete is scheduled
SpecFair ==
    /\ InitFair
    /\ [][NextFair]_vars
    /\ WF_pc(FrameStep)
    /\ WF_pc(ReceiveStep)
    /\ WF_vars(ReceiveDefault)
    /\ WF_vars(\E pattern \in FairPatterns : Send(pattern))

\* C33: the iteration never waits at the select: with the queue empty, or
\* without a queue, the default case can be taken at once and leaves the
\* iteration with nothing received; every iteration that reaches the select
\* completes, and an unpaused loop goes on to its next tick whatever the
\* handlers do.
C33_SelectNeverWaits ==
    /\ [](status = "run" /\ pc = "recv" /\ (Len(pChan) = 0 \/ ~cfg.Server)
             => ENABLED ReceiveDefault)
    /\ [][pc = "recv" /\ pc' # "recv" /\ (Len(pChan) = 0 \/ ~cfg.Server) =>
             UNCHANGED <<gameVars, pChan, hist>>]_vars
    /\ (status = "run" /\ pc = "recv") ~> (pc # "recv")
    /\ \A n \in 0..(MaxLoopTicks - 1) :
           (status = "run" /\ ~pause /\ hist.ticks = n)
               ~> (hist.ticks > n \/ pause \/ status # "run")

\* the loop without a queue has ticked and is at its select
C33_Witness ==
    /\ ~cfg.Server
    /\ pc = "recv"
    /\ hist.ticks = MaxLoopTicks
    /\ status = "run"

\* the sends attempted so far: completed, or waiting in a handler
Attempted == Len(hist.sent) + CountWaiting(handlers, LoopPatterns)

\* C34: under fair scheduling of the loop and of the handlers, every send
\* that is attempted completes and its pattern is received and decoded,
\* paused or not, as long as the user does not quit: the k-th pattern
\* attempted becomes the k-th pattern received.
C34_EveryPatternReceived ==
    \A k \in 1..MaxPosts :
        (Attempted >= k) ~> (Len(hist.recv) >= k \/ status = "quit")

\* the step runs NextFrame
IsTick == hist'.ticks > hist.ticks

\* the step handles a key
IsKey == pc = "events" /\ pc' = "events"

\* C35: a tick runs only when the loop is not paused or a single step is
\* pending, and it uses the pending step up; a frame with a tick due and
\* none run has not reached its deadline; pause and the pending step change
\* only by a key, space toggling pause and s setting pause and the pending
\* step (again, if it is pending already), and a pending step ends only in
\* its tick; under fair scheduling a pending step gets its tick at the
\* deadline.  So a paused loop without a pending step does not tick, and s
\* gives one tick and no more until space or s is pressed.
C35_PauseAndSingleStep ==
    /\ [][/\ IsTick => ((~pause \/ oneStep) /\ ~oneStep' /\ pause' = pause)
          /\ (FrameStep /\ (~pause \/ oneStep) /\ ~IsTick) =>
                 fpsElapsed' <= FramePeriod(cfg)
          /\ (pause' # pause \/ (oneStep' /\ ~oneStep)) =>
                 /\ IsKey
                 /\ \/ pause' = ~pause /\ oneStep' = oneStep
                    \/ pause' /\ oneStep'
          /\ (oneStep /\ ~oneStep') => IsTick]_vars
    /\ \A n \in 0..(MaxLoopTicks - 1) :
           (status = "run" /\ oneStep /\ hist.ticks = n)
               ~> (hist.ticks > n \/ status # "run")

\* the single step has had its tick, and a later deadline has passed with
\* the loop paused and no further tick
C35_Witness ==
    /\ pause /\ ~oneStep
    /\ hist.ticks = 1
    /\ fpsElapsed > FramePeriod(cfg)
    /\ Len(hist.recv) > 0
    /\ status = "run"

-----------------------------------------------------------------------------
(* The loop: what the queue holds *)

\* C40: every pattern that a handler is about to send, that is in the queue
\* or that the loop has received has at least one line, so that pattern[0]
\* in the loop's select is defined: the handler answers a request without a
\* body line (and any request that is not a POST) without sending.
C40_QueuedPatternsHaveLines ==
    /\ \A p \in Waiting(handlers) : Len(p) >= 1
    /\ \A i \in 1..Len(pChan) : Len(pChan[i]) >= 1
    /\ \A i \in 1..Len(hist.recv) : Len(hist.recv[i]) >= 1

\* two patterns have been received, of which one with an empty first line,
\* and another waits in the queue
C40_Witness ==
    /\ Len(hist.recv) = 2
    /\ \E i \in 1..2 : Len(hist.recv[i][1]) = 0
    /\ Len(pChan) = 1

-----------------------------------------------------------------------------
(* The game between the steps of the loop: startup, ticks, patterns from    *)
(* the queue and resets                                                     *)

\* the random fill sets at most MaxFill cells alive
MaxFill == 1

\* a plaintext pattern; a Life 1.05 pattern with a rule line; a Life 1.05
\* pattern with an illegal character after two cells; an RLE pattern with a
\* rule in its header and one without; an RLE header with no line after it
GamePatterns ==
    { << <<"O", ".", "O">>, <<"O">> >>,
      << Life105Magic, RuleLine(<<"2", "3">>, <<"3", "6">>), PosLine(0, 0),
         <<"*", "*">> >>,
      << Life105Magic, <<"*", ".", "x">> >>,
      << <<"x", "=", "2", ",", "y", "=", "2", ",", "r", "u", "l", "e", "=",
           "B", "2", "/", "S", "3">>,
         <<"o", "b", "$", "b", "o", "!">> >>,
      << <<"x", "=", "1", ",", "y", "=", "1">>, <<"o", "!">> >>,
      << <<"x", "=", "1", ",", "y", "=", "1">> >> }

\* the command lines: -empty, a random fill, a pattern file
GameConfigs ==
    LET c == [Rule |-> <<"B", "3", "/", "S", "2", "3">>, HasPattern |-> FALSE,
              PatternFile |-> <<>>, Empty |-> FALSE, Pause |-> FALSE,
              Server |-> TRUE]
    IN  {c, [c EXCEPT !.Empty = TRUE]} \cup
        {[c EXCEPT !.HasPattern = TRUE, !.PatternFile = p] : p \in GamePatterns}

\* the cells math/rand can pick for the random fill under configuration c
Fills(c) ==
    IF c.HasPattern \/ c.Empty THEN {{}}
    ELSE {rnd \in SUBSET Coords(rows, columns) : Cardinality(rnd) <= MaxFill}

\* NewLifeGame: the world after the first InitializeCells, for worlds that
\* are not taller than wide
InitGame ==
    /\ rows \in 1..MaxSide
    /\ columns \in rows..MaxSide
    /\ rows * columns <= MaxCells
    /\ \E c \in GameConfigs : \E rnd \in Fills(c) :
        LET i == InitializeCells(rows, columns, c, NoGame, rnd)
        IN  /\ cells = i.cells
            /\ birth = i.birth
            /\ stayAlive = i.stayAlive
            /\ cfg = [c EXCEPT !.Rule = i.rule]
            /\ status = i.status
    /\ liveCells = 0 /\ age = 0
    /\ input = <<>> /\ output = NoOutput
    /\ hist = [op |-> "init", ticks |-> 0, decodes |-> 0, resets |-> 0,
               pattern |-> <<>>]
    /\ IdleLoop

\* g.NextFrame() in Run
GameTick ==
    /\ status = "run"
    /\ hist.ticks < MaxTicks
    /\ LET n == NextFrame(cells, birth, stayAlive, liveCells, age)
       IN  /\ cells' = n.cells
           /\ liveCells' = n.liveCells
           /\ age' = n.age
    /\ hist' = [hist EXCEPT !.op = "tick", !.ticks = @ + 1]
    /\ UNCHANGED <<rows, columns, birth, stayAlive, cfg, status, input, output>>
    /\ UNCHANGED <<running, oneStep, pause, fpsElapsed, pc, pChan, handlers>>

\* the select in Run receives pattern and decodes it
GameDecode(pattern) ==
    /\ status = "run"
    /\ hist.decodes = 0
    /\ LET d == IntakeDecode([rows |-> rows, columns |-> columns, cells |-> cells],
                             cfg.Rule, pattern)
       IN  /\ cells' = d.g.cells
           /\ cfg' = [cfg EXCEPT !.Rule = d.rule]
           /\ status' = IF d.panic THEN "panic" ELSE status
           /\ output' = [done |-> TRUE, err |-> d.err]
    /\ hist' = [hist EXCEPT !.op = "decode", !.decodes = @ + 1,
                            !.pattern = pattern]
    /\ UNCHANGED <<rows, columns, liveCells, age, birth, stayAlive, input>>
    /\ UNCHANGED <<running, oneStep, pause, fpsElapsed, pc, pChan, handlers>>

\* the key r in Run: g.InitializeCells()
GameReset ==
    /\ status = "run"
    /\ hist.resets = 0
    /\ \E rnd \in Fills(cfg) :
        LET i == InitializeCells(rows, columns, cfg,
                                 [cells |-> cells, birth |-> birth,
                                  stayAlive |-> stayAlive], rnd)
        IN  /\ cells' = i.cells
            /\ birth' = i.birth
            /\ stayAlive' = i.stayAlive
            /\ cfg' = [cfg EXCEPT !.Rule = i.rule]
            /\ status' = i.status
    /\ age' = 0
    /\ hist' = [hist EXCEPT !.op = "reset", !.resets = @ + 1]
    /\ UNCHANGED <<rows, columns, liveCells, input, output>>
    /\ UNCHANGED <<running, oneStep, pause, fpsElapsed, pc, pChan, handlers>>

NextGame ==
    \/ GameTick
    \/ \E pattern \in GamePatterns : GameDecode(pattern)
    \/ GameReset

SpecGame == InitGame /\ [][NextGame]_vars


\* C32: a tick consults the birth and survive sets that ParseRulestring
\* yields for the active rule string: whenever the game can tick, after a
\* startup from a pattern file as after a pattern from the queue, birth and
\* stayAlive are the sets of cfg.Rule.
C32_TickUsesActiveRule ==
    status = "run" =>
        /\ ~ParseRulestring(cfg.Rule).err
        /\ birth = ParseRulestring(cfg.Rule).birth
        /\ stayAlive = ParseRulestring(cfg.Rule).stayAlive


\* the step decodes a pattern from the queue: hist'.pattern
IsGameDecode == hist'.decodes > hist.decodes

IsLife105(pattern) == HasPrefix(pattern[1], Life105Magic)

\* the cells a Life 1.05 or plaintext pattern addresses, as its writes
GameReading(pattern) ==
    IF IsLife105(pattern) THEN LifeReading(pattern, 1, 0, 0, 0, <<>>)
    ELSE PlainReading(pattern, 1, 0, <<>>)

WritesAt(ws, x, y) == {k \in 1..Len(ws) : ws[k].x = x /\ ws[k].y = y}

\* what a decode with the writes ws leaves of the cell at (x, y)
KeepsCell(ws, x, y) ==
    /\ WritesAt(ws, x, y) = {} => cells'[y][x] = cells[y][x]
    /\ (cells[y][x].alive /\ WritesAt(ws, x, y) # {}
           /\ \A k \in WritesAt(ws, x, y) : ws[k].alive) =>
          (cells'[y][x].alive /\ cells'[y][x].age = cells[y][x].age)

\* C36: a decode, whatever its format and its outcome, leaves the
\* generation counter, the recorded live count and the birth and survive
\* sets alone; a Life 1.05 or plaintext decode leaves every cell that no
\* pattern character addresses as it was, and a live cell that the pattern
\* writes alive keeps its age.
C36_DecodeFrame ==
    [][IsGameDecode =>
          /\ UNCHANGED <<age, liveCells, birth, stayAlive>>
          /\ (IsLife105(hist'.pattern) \/ ~isRLE(hist'.pattern)) =>
                \A c \in Coords(rows, columns) :
                    KeepsCell(GameReading(hist'.pattern), c[1], c[2])]_vars

\* after a tick the plaintext pattern has been decoded: a cell it wrote
\* alive has kept its age, and so has a live cell it did not address
C36_Witness ==
    /\ hist.op = "decode" /\ hist.ticks >= 1
    /\ ~IsLife105(hist.pattern) /\ ~isRLE(hist.pattern)
    /\ \E c \in Coords(rows, columns) :
        /\ WritesAt(GameReading(hist.pattern), c[1], c[2]) # {}
        /\ cells[c[2]][c[1]].alive /\ cells[c[2]][c[1]].age >= 1
    /\ \E c \in Coords(rows, columns) :
        /\ WritesAt(GameReading(hist.pattern), c[1], c[2]) = {}
        /\ cells[c[2]][c[1]].alive /\ cells[c[2]][c[1]].age >= 1


\* the step runs NextFrame on the game
IsGameTick == hist'.ticks > hist.ticks

\* C37: in every state every cell has age >= 0, and age 0 if its aliveNext
\* is false; after a tick every live cell has age >= 1, and a cell that was
\* alive before the tick and is alive after it is one tick older, so that a
\* cell a decoder set alive with age 0 has age k after surviving k ticks.
C37_CellAges ==
    /\ [](\A c \in Coords(LenRows(cells), LenCols(cells, 0)) :
             /\ cells[c[2]][c[1]].age >= 0
             /\ ~cells[c[2]][c[1]].aliveNext => cells[c[2]][c[1]].age = 0)
    /\ [][IsGameTick =>
             \A c \in Coords(rows, columns) :
                 /\ cells'[c[2]][c[1]].alive => cells'[c[2]][c[1]].age >= 1
                 /\ (cells[c[2]][c[1]].alive /\ cells'[c[2]][c[1]].alive) =>
                        cells'[c[2]][c[1]].age = cells[c[2]][c[1]].age + 1]_vars

\* on the world started empty, a cell that the pattern from the queue set
\* alive has survived MaxTicks ticks and has age MaxTicks, next to a cell
\* that has died
C37_Witness ==
    /\ cfg.Empty /\ hist.resets = 0
    /\ hist.op = "tick" /\ hist.ticks = MaxTicks /\ hist.decodes = 1
    /\ \E c \in Coords(rows, columns) :
        /\ WritesAt(GameReading(hist.pattern), c[1], c[2]) # {}
        /\ cells[c[2]][c[1]].alive /\ cells[c[2]][c[1]].age = MaxTicks
    /\ \E c \in Coords(rows, columns) :
        /\ WritesAt(GameReading(hist.pattern), c[1], c[2]) # {}
        /\ ~cells[c[2]][c[1]].alive

\* C38: between the steps of the loop, after the startup, after a reset,
\* after a decode that succeeded or failed and after a tick, every cell has
\* alive = aliveNext.
C38_AliveIsAliveNext ==
    status = "run" =>
        \A c \in Coords(rows, columns) :
            cells[c[2]][c[1]].alive = cells[c[2]][c[1]].aliveNext

\* a decode from the queue has failed after it set a cell alive, and a tick
\* has run since
C38_Witness ==
    /\ status = "run"
    /\ hist.op = "tick" /\ hist.decodes = 1
    /\ output.done /\ output.err = ErrIllegal
    /\ \E c \in Coords(rows, columns) : cells[c[2]][c[1]].alive

\* the live cells of the grid
LiveNow(cs) ==
    {c \in Coords(LenRows(cs), LenCols(cs, 0)) : cs[c[2]][c[1]].alive}

\* C39: between the steps of the loop liveCells is the number of live cells
\* of the grid.
C39_LiveCountIsExact ==
    status = "run" => liveCells = Cardinality(LiveNow(cells))

=============================================================================
